---------------------------- MODULE Spec2Model ----------------------------
(***************************************************************************)
(* Evertz Quartz router control module: the protocol engine.               *)
(*                                                                         *)
(* QuartzParser (src/src/quartz.js) frames a carriage-return terminated    *)
(* byte stream into records and classifies each record; QuartzInstance     *)
(* (src/index.js) applies the parsed messages to the directories and the   *)
(* crosspoint table; the connection methods (src/unnamed/part_002) own     *)
(* the socket and the poll timer.                                          *)
(*                                                                         *)
(* JavaScript strings are modelled as sequences of one-character strings,  *)
(* a received Buffer as a sequence of bytes.  A byte below 0x80 is written *)
(* as its ASCII character, the two bytes of UTF-8 "e acute" as "xC3" and   *)
(* "xA9".  After decoding, "U+E9" is that character and "U+FFFD" the       *)
(* replacement character.                                                  *)
(***************************************************************************)
EXTENDS Integers, Sequences, FiniteSets, TLC

VARIABLES
    config,                 \* this.config: [host, max_destinations, max_sources]
    parser,                 \* "null" | "instance" (this.parser) | "standalone"
    buffer,                 \* QuartzParser._buffer
    CHOICES_DESTINATIONS,   \* this.CHOICES_DESTINATIONS
    CHOICES_SOURCES,        \* this.CHOICES_SOURCES
    crosspoints,            \* this.crosspoints: level -> (destination -> source)
    refreshTimeout,         \* this._refreshTimeout is pending
    socket,                 \* this.socket: "null", or a TCPHelper that is "connecting",
                            \* "connected" (isConnected), or "closed" and about to reconnect
    status,                 \* last InstanceStatus passed to updateStatus
    INTERVAL,               \* this.INTERVAL holds a live interval timer
    timers,                 \* number of interval timers set and not cleared
    lastCommand,            \* this.lastCommand
    wire,                   \* bytes the router has written and the socket has not delivered yet
    fresh,                  \* the router has written nothing yet on this connection
    nsent,                  \* number of records the router has written
    stream,                 \* history: the bytes fed to the parser since it was created or reset
    decoded,                \* history: the decoded chunks appended to the buffer since then
    emitted,                \* history: the 'message' events emitted since then
    trail,                  \* history: one entry per message handled by the last operation
    residue,                \* history: the buffer text the last reset() threw away
    written,                \* history: the commands the last operation wrote to the socket
    returned,               \* history: << cmd, result >> of the last operation if it was a
                            \* sendCommand(cmd) call of an action, else << >>
    base,                   \* history: the crosspoint table when the parser was created
    repertoire,             \* the records the router may write in this run
    destroyed,              \* destroy() has been called: the instance is being removed
    selectedDestination,    \* this.selectedDestination, as the text a template literal gives
    variableValues,         \* Companion's values of the module's variables dst and src
    response,               \* this.response, the receive buffer of the older generation
    sockets,                \* number of TCPHelper sockets created and not destroyed
    listeners,              \* number of 'message' listeners of this.parser
    timeouts,               \* number of refresh timeouts set and neither cleared nor fired
    actionDefinitions       \* the choice lists the last initActions built the actions from

vars == << config, parser, buffer, CHOICES_DESTINATIONS, CHOICES_SOURCES, crosspoints,
           refreshTimeout, socket, status, INTERVAL, timers, lastCommand, wire, fresh,
           nsent, stream, decoded, emitted, trail, residue, written, returned, base,
           repertoire, destroyed, selectedDestination, variableValues, response,
           sockets, listeners, timeouts, actionDefinitions >>

-----------------------------------------------------------------------------
(* Bounds of the model *)

MaxRecords == 2
MaxDestinations == 2
MaxSources == 1
MaxTimers == 2
MaxChunk == 8

-----------------------------------------------------------------------------
(* JavaScript built-ins used by the source, by what they do *)

CR == "\r"

\* JavaScript undefined / a property that is not there
Undefined == << >>
\* the result of a failed parseInt; a number n is << n >>
NaN == << >>
isNaN(x) == x = NaN
Num(n) == << n >>

Min(a, b) == IF a < b THEN a ELSE b

\* String.prototype.slice(start) and slice(start, end), 0-based, for 0 <= start
slice(s, start) == SubSeq(s, start + 1, Len(s))
slice2(s, start, end) == SubSeq(s, start + 1, Min(end, Len(s)))

\* String.prototype.slice(-1): the last character, or the empty string
sliceLast(s) == IF Len(s) = 0 THEN << >> ELSE << s[Len(s)] >>

\* String.prototype.indexOf(c): the first 0-based position of c, or -1
indexOf(s, c) ==
    IF \E i \in 1..Len(s) : s[i] = c
    THEN (CHOOSE i \in 1..Len(s) : s[i] = c /\ \A j \in 1..(i - 1) : s[j] # c) - 1
    ELSE -1

\* String.prototype.lastIndexOf(c): the last 0-based position of c, or -1
lastIndexOf(s, c) ==
    IF \E i \in 1..Len(s) : s[i] = c
    THEN (CHOOSE i \in 1..Len(s) : s[i] = c /\ \A j \in (i + 1)..Len(s) : s[j] # c) - 1
    ELSE -1

startsWith(s, prefix) ==
    /\ Len(s) >= Len(prefix)
    /\ SubSeq(s, 1, Len(prefix)) = prefix

\* a slip: the terminator is never seen
endsWith_never(s, c) == FALSE

endsWith(s, c) == Len(s) > 0 /\ s[Len(s)] = c

DigitChars == << "0", "1", "2", "3", "4", "5", "6", "7", "8", "9" >>
IsDigit(c) == \E i \in 1..10 : DigitChars[i] = c
DigitValue(c) == (CHOOSE i \in 1..10 : DigitChars[i] = c) - 1
IsWhiteSpace(c) == c \in { " ", "\t", "\n", CR }

\* the number of leading characters of s that satisfy the digit test
RECURSIVE LeadingDigits(_)
LeadingDigits(s) ==
    IF s # << >> /\ IsDigit(Head(s)) THEN 1 + LeadingDigits(Tail(s)) ELSE 0

RECURSIVE DecimalValue(_)
DecimalValue(s) ==
    IF s = << >> THEN 0 ELSE 10 * DecimalValue(SubSeq(s, 1, Len(s) - 1)) + DigitValue(s[Len(s)])

RECURSIVE TrimStart(_)
TrimStart(s) ==
    IF s # << >> /\ IsWhiteSpace(Head(s)) THEN TrimStart(Tail(s)) ELSE s

\* parseInt(s, 10): leading white space is skipped, an optional sign is read, then
\* the longest run of decimal digits; what follows is ignored; no digit gives NaN
parseInt(s) ==
    LET t == TrimStart(s)
        signed == t # << >> /\ Head(t) \in { "-", "+" }
        u == IF signed THEN Tail(t) ELSE t
        n == LeadingDigits(u)
        v == DecimalValue(SubSeq(u, 1, n))
    IN  IF n = 0 THEN NaN
        ELSE IF signed /\ Head(t) = "-" THEN Num(0 - v) ELSE Num(v)

RECURSIVE NatToString(_)
NatToString(n) ==
    IF n < 10 THEN << DigitChars[n + 1] >>
    ELSE NatToString(n \div 10) \o << DigitChars[(n % 10) + 1] >>

\* String(x) for the result of parseInt
String(x) ==
    IF isNaN(x) THEN << "N", "a", "N" >>
    ELSE IF x[1] < 0 THEN << "-" >> \o NatToString(0 - x[1])
    ELSE NatToString(x[1])

\* a decoded character; "" stands where a continuation byte was consumed
IsChar(c) == c # ""

\* Buffer.prototype.toString('utf-8') on the bytes of the model: the pair xC3 xA9
\* decodes to one character; a lead byte without its continuation byte in the same
\* buffer, and a continuation byte on its own, decode to the replacement character
toStringUtf8(data) ==
    LET chars == [ i \in 1..Len(data) |->
                     IF data[i] = "xC3"
                     THEN IF i < Len(data) /\ data[i + 1] = "xA9" THEN "U+E9" ELSE "U+FFFD"
                     ELSE IF data[i] = "xA9"
                     THEN IF i > 1 /\ data[i - 1] = "xC3" THEN "" ELSE "U+FFFD"
                     ELSE data[i] ]
    IN  SelectSeq(chars, IsChar)

\* the byte Buffer.from(text, 'latin1') writes for one character: its code modulo 256
byteOfChar(c) ==
    CASE c = "U+E9" -> "xE9"
      [] c = "U+C3" -> "xC3"
      [] c = "U+A9" -> "xA9"
      [] c = "U+FFFD" -> "xFD"
      [] OTHER -> c

\* Buffer.from(text, 'latin1'): one byte per character
latin1(text) == [ i \in 1..Len(text) |-> byteOfChar(text[i]) ]

-----------------------------------------------------------------------------
(* quartz.js: response prefixes, message types, the parsed message objects *)

PREFIX_ACKNOWLEDGE == << ".", "A" >>
PREFIX_DESTINATION_NAME == << ".", "R", "A", "D" >>
PREFIX_SOURCE_NAME == << ".", "R", "A", "S" >>
PREFIX_UPDATE == << ".", "U" >>
PREFIX_LOCK_STATUS == << ".", "B", "A" >>
PREFIX_ERROR == << ".", "E" >>
PREFIX_POWER_UP == << ".", "P" >>

MessageType ==
    { "destinationName", "sourceName", "crosspointUpdate", "acknowledge",
      "lockStatus", "powerUp", "error", "unknown" }

validLevels ==
    { "V", "A", "B", "C", "D", "E", "F", "G", "H", "I", "J", "K", "L", "M", "N", "O" }

\* Every message object of the model has the same fields; a field the JavaScript
\* object does not have is Undefined
BlankMessage ==
    [ type |-> "unknown", id |-> Undefined, name |-> Undefined, levels |-> Undefined,
      destination |-> Undefined, source |-> Undefined, status |-> Undefined,
      data |-> Undefined, raw |-> Undefined ]

UnknownMessage(line) == [ BlankMessage EXCEPT !.type = "unknown", !.raw = line ]

\* a slip: a payload without a comma is taken as an id with an empty name
_parseNameResponse_lenient(line, prefix, type) ==
    LET payload == slice(line, Len(prefix))
        commaIndex == indexOf(payload, ",")
    IN  IF commaIndex = -1
        THEN [ BlankMessage EXCEPT !.type = type, !.id = parseInt(payload), !.name = << >> ]
        ELSE [ BlankMessage EXCEPT
                 !.type = type,
                 !.id = parseInt(slice2(payload, 0, commaIndex)),
                 !.name = slice(payload, commaIndex + 1) ]

_parseNameResponse(line, prefix, type) ==
    LET payload == slice(line, Len(prefix))
        commaIndex == indexOf(payload, ",")
    IN  IF commaIndex = -1 THEN UnknownMessage(line)
        ELSE [ BlankMessage EXCEPT
                 !.type = type,
                 !.id = parseInt(slice2(payload, 0, commaIndex)),
                 !.name = slice(payload, commaIndex + 1) ]

\* a slip: the run of levels ends behind the first level character
levelEndIndex_one(payload) ==
    IF payload # << >> /\ Head(payload) \in validLevels THEN 1 ELSE 0

\* the number of leading characters of payload that are level characters
RECURSIVE levelEndIndex(_)
levelEndIndex(payload) ==
    IF payload # << >> /\ Head(payload) \in validLevels
    THEN 1 + levelEndIndex(Tail(payload))
    ELSE 0

_parseUpdateResponse(line) ==
    LET payload == slice(line, Len(PREFIX_UPDATE))
        n == levelEndIndex(payload)
        levels == slice2(payload, 0, n)
        rest == slice(payload, n)
        commaIndex == indexOf(rest, ",")
        destination == parseInt(slice2(rest, 0, commaIndex))
        source == parseInt(slice(rest, commaIndex + 1))
    IN  IF Len(payload) < 3 THEN UnknownMessage(line)
        ELSE IF n = 0 THEN UnknownMessage(line)
        ELSE IF commaIndex = -1 THEN UnknownMessage(line)
        ELSE IF isNaN(destination) \/ isNaN(source) THEN UnknownMessage(line)
        ELSE [ BlankMessage EXCEPT
                 !.type = "crosspointUpdate",
                 !.levels = levels,
                 !.destination = destination,
                 !.source = source ]

_parseLockStatusResponse(line) ==
    LET payload == slice(line, Len(PREFIX_LOCK_STATUS))
        commaIndex == indexOf(payload, ",")
        destination == parseInt(slice2(payload, 0, commaIndex))
        lockStatus == parseInt(slice(payload, commaIndex + 1))
    IN  IF commaIndex = -1 THEN UnknownMessage(line)
        ELSE IF isNaN(destination) \/ isNaN(lockStatus) THEN UnknownMessage(line)
        ELSE [ BlankMessage EXCEPT
                 !.type = "lockStatus",
                 !.destination = destination,
                 !.status = lockStatus ]

_parseAcknowledgeResponse(line) ==
    LET data == slice(line, Len(PREFIX_ACKNOWLEDGE))
    IN  [ BlankMessage EXCEPT
            !.type = "acknowledge",
            !.data = IF Len(data) > 0 THEN data ELSE Undefined,
            !.raw = line ]

\* a slip: the lock status prefix is not tested
_parseLine_noLock(line) ==
    IF startsWith(line, PREFIX_DESTINATION_NAME)
    THEN _parseNameResponse(line, PREFIX_DESTINATION_NAME, "destinationName")
    ELSE IF startsWith(line, PREFIX_SOURCE_NAME)
    THEN _parseNameResponse(line, PREFIX_SOURCE_NAME, "sourceName")
    ELSE IF startsWith(line, PREFIX_UPDATE) THEN _parseUpdateResponse(line)
    ELSE IF startsWith(line, PREFIX_ACKNOWLEDGE) THEN _parseAcknowledgeResponse(line)
    ELSE IF line = PREFIX_ERROR \/ startsWith(line, PREFIX_ERROR)
    THEN [ BlankMessage EXCEPT !.type = "error", !.raw = line ]
    ELSE IF line = PREFIX_POWER_UP \/ startsWith(line, PREFIX_POWER_UP)
    THEN [ BlankMessage EXCEPT !.type = "powerUp" ]
    ELSE UnknownMessage(line)

_parseLine(line) ==
    IF startsWith(line, PREFIX_DESTINATION_NAME)
    THEN _parseNameResponse(line, PREFIX_DESTINATION_NAME, "destinationName")
    ELSE IF startsWith(line, PREFIX_SOURCE_NAME)
    THEN _parseNameResponse(line, PREFIX_SOURCE_NAME, "sourceName")
    ELSE IF startsWith(line, PREFIX_UPDATE) THEN _parseUpdateResponse(line)
    ELSE IF startsWith(line, PREFIX_LOCK_STATUS) THEN _parseLockStatusResponse(line)
    ELSE IF startsWith(line, PREFIX_ACKNOWLEDGE) THEN _parseAcknowledgeResponse(line)
    ELSE IF line = PREFIX_ERROR \/ startsWith(line, PREFIX_ERROR)
    THEN [ BlankMessage EXCEPT !.type = "error", !.raw = line ]
    ELSE IF line = PREFIX_POWER_UP \/ startsWith(line, PREFIX_POWER_UP)
    THEN [ BlankMessage EXCEPT !.type = "powerUp" ]
    ELSE UnknownMessage(line)

-----------------------------------------------------------------------------
(* quartz.js: command builders *)

RECURSIVE buildReadDestinationsCommand(_)
buildReadDestinationsCommand(maxDestinations) ==
    IF maxDestinations < 1 THEN << >>
    ELSE buildReadDestinationsCommand(maxDestinations - 1)
         \o << ".", "R", "D" >> \o NatToString(maxDestinations) \o << CR >>

RECURSIVE buildReadSourcesCommand(_)
buildReadSourcesCommand(maxSources) ==
    IF maxSources < 1 THEN << >>
    ELSE buildReadSourcesCommand(maxSources - 1)
         \o << ".", "R", "S" >> \o NatToString(maxSources) \o << CR >>

buildReadNamesCommand(maxDestinations, maxSources) ==
    buildReadDestinationsCommand(maxDestinations) \o buildReadSourcesCommand(maxSources)

RECURSIVE buildInterrogateAllCommand(_, _)
buildInterrogateAllCommand(level, maxDestinations) ==
    IF maxDestinations < 1 THEN << >>
    ELSE buildInterrogateAllCommand(level, maxDestinations - 1)
         \o << ".", "I", level >> \o NatToString(maxDestinations) \o << CR >>

-----------------------------------------------------------------------------
(* index.js, part_002: the instance.  `self` is the instance as a record:     *)
(* the program's fields, the history fields, and three scratch fields that     *)
(* collect what the handling of one message did (signals, applied, sends).     *)

CHOICES_DESTINATIONS_INITIAL ==
    << [ id |-> << "0" >>,
         label |-> << "N", "o", " ", "D", "e", "s", "t", "i", "n", "a", "t", "i", "o", "n", "s",
                      " ", "L", "o", "a", "d", "e", "d" >> ] >>

CHOICES_SOURCES_INITIAL ==
    << [ id |-> << "0" >>,
         label |-> << "N", "o", " ", "S", "o", "u", "r", "c", "e", "s",
                      " ", "L", "o", "a", "d", "e", "d" >> ] >>

EmptyObject == [ k \in {} |-> Undefined ]

\* the directories and the crosspoint table of an instance
Store(self) ==
    [ CHOICES_DESTINATIONS |-> self.CHOICES_DESTINATIONS,
      CHOICES_SOURCES |-> self.CHOICES_SOURCES,
      crosspoints |-> self.crosspoints ]

signal(self, what) == [ self EXCEPT !.signals = Append(@, what) ]

\* the ids of a choice list
Ids(list) == { list[i].id : i \in 1..Len(list) }

\* list.findIndex((e) => e.id === id): 0-based, -1 when there is none
findIndex(list, id) ==
    IF \E i \in 1..Len(list) : list[i].id = id
    THEN (CHOOSE i \in 1..Len(list) :
            list[i].id = id /\ \A j \in 1..(i - 1) : list[j].id # id) - 1
    ELSE -1

\* a slip: the pending timeout is not cleared
_scheduleActionsRefresh_pile(self) ==
    signal([ self EXCEPT !.refreshTimeout = TRUE, !.timeouts = @ + 1 ],
           "scheduleActionsRefresh")

\* clearTimeout of a pending timeout, then setTimeout(..., 100)
_scheduleActionsRefresh(self) ==
    signal([ self EXCEPT !.refreshTimeout = TRUE,
                         !.timeouts = ( IF self.refreshTimeout THEN @ - 1 ELSE @ ) + 1 ],
           "scheduleActionsRefresh")

\* initActions: the action definitions are built with the two choice lists as they
\* are now and handed to Companion
initActions(self) ==
    [ destinations |-> self.CHOICES_DESTINATIONS, sources |-> self.CHOICES_SOURCES ]

\* a slip: an entry that is already there is kept
setCrosspoint_keepFirst(xp, level, destination, source) ==
    LET row == IF level \in DOMAIN xp THEN xp[level] ELSE [ k \in {} |-> 0 ]
        newRow == [ d \in (DOMAIN row) \cup { destination } |->
                      IF d \in DOMAIN row THEN row[d] ELSE source ]
    IN  [ l \in (DOMAIN xp) \cup { level } |-> IF l = level THEN newRow ELSE xp[l] ]

\* crosspoints[level][destination] = source, creating crosspoints[level] if needed
setCrosspoint(xp, level, destination, source) ==
    LET row == IF level \in DOMAIN xp THEN xp[level] ELSE EmptyObject
        newRow == [ d \in (DOMAIN row) \cup { destination } |->
                      IF d = destination THEN source ELSE row[d] ]
    IN  [ l \in (DOMAIN xp) \cup { level } |-> IF l = level THEN newRow ELSE xp[l] ]

\* crosspoints[level]?.[destNum]: << source >>, or Undefined
lookupCrosspoint(xp, level, destNum) ==
    IF level \in DOMAIN xp /\ destNum \in DOMAIN xp[level]
    THEN << xp[level][destNum] >>
    ELSE Undefined

getRoutedSource(level, destination) == lookupCrosspoint(crosspoints, level, destination)

\* a slip: the placeholder is not removed
_updateChoiceList_merge(self, list, entry) ==
    LET existingIndex == findIndex(self[list], entry.id)
    IN  IF existingIndex >= 0
        THEN IF self[list][existingIndex + 1].label # entry.label
             THEN _scheduleActionsRefresh(
                      [ self EXCEPT ![list] = [ @ EXCEPT ![existingIndex + 1] = entry ] ])
             ELSE self
        ELSE _scheduleActionsRefresh([ self EXCEPT ![list] = Append(@, entry) ])

\* a slip: a changed entry is taken out and put at the end of the list
_updateChoiceList_requeue(self, list, entry) ==
    LET cleared == IF Len(self[list]) = 1 /\ self[list][1].id = << "0" >>
                   THEN << >> ELSE self[list]
        existingIndex == findIndex(cleared, entry.id)
    IN  IF existingIndex >= 0
        THEN IF cleared[existingIndex + 1].label # entry.label
             THEN _scheduleActionsRefresh(
                      [ self EXCEPT ![list] =
                          Append(SubSeq(cleared, 1, existingIndex)
                                   \o SubSeq(cleared, existingIndex + 2, Len(cleared)), entry) ])
             ELSE [ self EXCEPT ![list] = cleared ]
        ELSE _scheduleActionsRefresh([ self EXCEPT ![list] = Append(cleared, entry) ])

_updateChoiceList(self, list, entry) ==
    LET cleared == IF Len(self[list]) = 1 /\ self[list][1].id = << "0" >>
                   THEN << >> ELSE self[list]
        existingIndex == findIndex(cleared, entry.id)
    IN  IF existingIndex >= 0
        THEN IF cleared[existingIndex + 1].label # entry.label
             THEN _scheduleActionsRefresh(
                      [ self EXCEPT ![list] = [ cleared EXCEPT ![existingIndex + 1] = entry ] ])
             ELSE [ self EXCEPT ![list] = cleared ]
        ELSE _scheduleActionsRefresh([ self EXCEPT ![list] = Append(cleared, entry) ])

\* the entry built by _handleDestinationName / _handleSourceName
ChoiceEntry(message) ==
    [ id |-> String(message.id),
      label |-> << "[" >> \o String(message.id) \o << "]", " " >> \o message.name ]

_handleDestinationName(self, message) ==
    _updateChoiceList(self, "CHOICES_DESTINATIONS", ChoiceEntry(message))

_handleSourceName(self, message) ==
    _updateChoiceList(self, "CHOICES_SOURCES", ChoiceEntry(message))

\* a slip: only the first level of the update is applied
applyLevels_firstOnly(xp, levels, destination, source) ==
    IF levels = << >> THEN xp
    ELSE [ l \in (DOMAIN xp) \cup { Head(levels) } |->
             IF l = Head(levels)
             THEN [ d \in (IF l \in DOMAIN xp THEN DOMAIN xp[l] ELSE {}) \cup { destination } |->
                      IF d = destination THEN source ELSE xp[l][d] ]
             ELSE xp[l] ]

RECURSIVE applyLevels(_, _, _, _)
applyLevels(xp, levels, destination, source) ==
    IF levels = << >> THEN xp
    ELSE applyLevels(setCrosspoint(xp, Head(levels), destination, source),
                     Tail(levels), destination, source)

RECURSIVE appliedLevels(_, _, _)
appliedLevels(levels, destination, source) ==
    IF levels = << >> THEN << >>
    ELSE << << Head(levels), destination, source >> >>
         \o appliedLevels(Tail(levels), destination, source)

\* a slip: an update that changes nothing is not signalled
_handleCrosspointUpdate_dedup(self, message) ==
    LET s1 == [ self EXCEPT
                  !.crosspoints = applyLevels(@, message.levels,
                                              message.destination[1], message.source[1]),
                  !.applied = @ \o appliedLevels(message.levels,
                                                 message.destination[1], message.source[1]) ]
    IN  IF s1.crosspoints = self.crosspoints THEN s1
        ELSE signal(signal(s1, "log Route"), "checkFeedbacks")

_handleCrosspointUpdate(self, message) ==
    LET s1 == [ self EXCEPT
                  !.crosspoints = applyLevels(@, message.levels,
                                              message.destination[1], message.source[1]),
                  !.applied = @ \o appliedLevels(message.levels,
                                                 message.destination[1], message.source[1]) ]
    IN  signal(signal(s1, "log Route"), "checkFeedbacks")

\* a slip: the source field runs to the end of the data
srcEndIndex_toEnd(remaining) == Len(remaining)

\* the number of leading characters of remaining that are not level characters
RECURSIVE srcEndIndex(_)
srcEndIndex(remaining) ==
    IF remaining # << >> /\ Head(remaining) \notin validLevels
    THEN 1 + srcEndIndex(Tail(remaining))
    ELSE 0

\* a slip: a group that fails to parse ends the loop
RECURSIVE interrogateLoop_abort(_)
interrogateLoop_abort(st) ==
    IF Len(st.remaining) = 0 THEN st
    ELSE
      LET level == st.remaining[1]
          r1 == slice(st.remaining, 1)
          commaIndex == indexOf(r1, ",")
          r2 == slice(r1, commaIndex + 1)
          n == srcEndIndex(r2)
          destination == parseInt(slice2(r1, 0, commaIndex))
          source == parseInt(slice2(r2, 0, n))
      IN  IF level \notin validLevels \/ commaIndex = -1 THEN st
          ELSE IF isNaN(destination) \/ isNaN(source) THEN st
          ELSE interrogateLoop_abort(
                 [ self |-> [ st.self EXCEPT
                                !.crosspoints = setCrosspoint(@, level, destination[1], source[1]),
                                !.applied = Append(@, << level, destination[1], source[1] >>) ],
                   remaining |-> slice(r2, n),
                   updated |-> TRUE ])

\* the while loop of _parseInterrogateData: st = [self, remaining, updated]
RECURSIVE interrogateLoop(_)
interrogateLoop(st) ==
    IF Len(st.remaining) = 0 THEN st
    ELSE
      LET level == st.remaining[1]
          r1 == slice(st.remaining, 1)
          commaIndex == indexOf(r1, ",")
          destStr == slice2(r1, 0, commaIndex)
          r2 == slice(r1, commaIndex + 1)
          n == srcEndIndex(r2)
          srcStr == slice2(r2, 0, n)
          r3 == slice(r2, n)
          destination == parseInt(destStr)
          source == parseInt(srcStr)
      IN  IF level \notin validLevels THEN st
          ELSE IF commaIndex = -1 THEN [ st EXCEPT !.remaining = r1 ]
          ELSE IF ~isNaN(destination) /\ ~isNaN(source)
          THEN interrogateLoop(
                 [ self |-> [ st.self EXCEPT
                                !.crosspoints = setCrosspoint(@, level, destination[1], source[1]),
                                !.applied = Append(@, << level, destination[1], source[1] >>) ],
                   remaining |-> r3,
                   updated |-> TRUE ])
          ELSE interrogateLoop([ st EXCEPT !.remaining = r3 ])

\* a slip: the feedback check is left out
_parseInterrogateData_silent(self, data) ==
    interrogateLoop([ self |-> self, remaining |-> data, updated |-> FALSE ]).self

_parseInterrogateData(self, data) ==
    LET st == interrogateLoop([ self |-> self, remaining |-> data, updated |-> FALSE ])
    IN  IF st.updated THEN signal(st.self, "checkFeedbacks") ELSE st.self

_handleAcknowledge(self, message) ==
    IF message.data = Undefined THEN self
    ELSE _parseInterrogateData(self, message.data)

\* a slip: the command is written whether or not there is a connection
sendCommand_always(self, cmd) ==
    LET command == IF endsWith(cmd, CR) THEN cmd ELSE Append(cmd, CR)
    IN  [ self EXCEPT !.sends = Append(@, latin1(command)),
                      !.written = Append(@, latin1(command)),
                      !.lastCommand = command, !.result = TRUE ]

\* part_002: refuses when there is no connected socket, else appends the carriage
\* return if it is missing, writes the text's latin1 bytes and stores the text in
\* lastCommand
sendCommand(self, cmd) ==
    IF self.socket # "connected"
    THEN [ signal(self, "log Cannot send command") EXCEPT !.result = FALSE ]
    ELSE LET command == IF endsWith(cmd, CR) THEN cmd ELSE Append(cmd, CR)
         IN  [ self EXCEPT !.sends = Append(@, latin1(command)),
                           !.written = Append(@, latin1(command)),
                           !.lastCommand = command, !.result = TRUE ]

\* src/api.js, the older generation: appends the carriage return first, then writes
\* if there is a connected socket; it returns nothing
sendCommandOlder(self, cmd) ==
    LET command == IF sliceLast(cmd) # << CR >> THEN Append(cmd, CR) ELSE cmd
    IN  IF self.socket = "connected"
        THEN [ self EXCEPT !.sends = Append(@, latin1(command)),
                           !.written = Append(@, latin1(command)),
                           !.lastCommand = command ]
        ELSE self

_requestNames(self) ==
    sendCommand(self, buildReadNamesCommand(self.config.max_destinations,
                                            self.config.max_sources))

_requestCrosspoints(self) ==
    sendCommand(self, buildInterrogateAllCommand("V", self.config.max_destinations))

\* a slip: an error from the router empties the tables
_handleProtocolError_clear(self, message) ==
    [ signal(self, "log error from router") EXCEPT
        !.CHOICES_DESTINATIONS = << >>, !.CHOICES_SOURCES = << >>,
        !.crosspoints = EmptyObject ]

_handleProtocolError(self, message) == signal(self, "log error from router")

_handleParsedMessage(self, message) ==
    CASE message.type = "destinationName" -> _handleDestinationName(self, message)
      [] message.type = "sourceName" -> _handleSourceName(self, message)
      [] message.type = "crosspointUpdate" -> _handleCrosspointUpdate(self, message)
      [] message.type = "acknowledge" -> _handleAcknowledge(self, message)
      [] message.type = "powerUp" -> _requestNames(signal(self, "log power up"))
      [] message.type = "error" -> _handleProtocolError(self, message)
      [] OTHER -> self

\* the 'message' listeners of the parser run one after the other, each calling
\* _handleParsedMessage
RECURSIVE runListeners(_, _, _)
runListeners(self, parsed, n) ==
    IF n = 0 THEN self
    ELSE runListeners(_handleParsedMessage(self, parsed), parsed, n - 1)

\* this.emit('message', parsed): the listeners _initParser has registered run at once;
\* a parser used on its own has no instance behind it
emit(self, parsed) ==
    LET s0 == [ self EXCEPT !.signals = << >>, !.applied = << >>, !.sends = << >>,
                            !.emitted = Append(@, parsed) ]
        s1 == IF self.parser = "instance" THEN runListeners(s0, parsed, self.listeners)
              ELSE s0
    IN  [ s1 EXCEPT !.trail = Append(@, [ message |-> parsed,
                                          handled |-> IF self.parser = "instance"
                                                      THEN self.listeners ELSE 0,
                                          before |-> Store(self),
                                          after |-> Store(s1),
                                          signals |-> s1.signals,
                                          applied |-> s1.applied,
                                          sends |-> s1.sends ]) ]

\* a slip: a record is read from its first '.'
RECURSIVE _processBuffer_firstDot(_)
_processBuffer_firstDot(self) ==
    LET crIndex == indexOf(self.buffer, CR)
        message == slice2(self.buffer, 0, crIndex)
        s1 == [ self EXCEPT !.buffer = slice(self.buffer, crIndex + 1) ]
        dotIndex == indexOf(message, ".")
    IN  IF crIndex = -1 THEN self
        ELSE IF Len(message) > 0 /\ dotIndex # -1
        THEN _processBuffer_firstDot(emit(s1, _parseLine(slice(message, dotIndex))))
        ELSE _processBuffer_firstDot(s1)

\* a slip: a record without a '.' is left in the buffer and stalls it
RECURSIVE _processBuffer_stall(_)
_processBuffer_stall(self) ==
    LET crIndex == indexOf(self.buffer, CR)
        message == slice2(self.buffer, 0, crIndex)
        s1 == [ self EXCEPT !.buffer = slice(self.buffer, crIndex + 1) ]
        dotIndex == lastIndexOf(message, ".")
    IN  IF crIndex = -1 THEN self
        ELSE IF Len(message) > 0 /\ dotIndex # -1
        THEN _processBuffer_stall(emit(s1, _parseLine(slice(message, dotIndex))))
        ELSE IF Len(message) = 0 THEN _processBuffer_stall(s1)
        ELSE self

RECURSIVE _processBuffer(_)
_processBuffer(self) ==
    LET crIndex == indexOf(self.buffer, CR)
        message == slice2(self.buffer, 0, crIndex)
        s1 == [ self EXCEPT !.buffer = slice(self.buffer, crIndex + 1) ]
        dotIndex == lastIndexOf(message, ".")
    IN  IF crIndex = -1 THEN self
        ELSE IF Len(message) > 0 /\ dotIndex # -1
        THEN _processBuffer(emit(s1, _parseLine(slice(message, dotIndex))))
        ELSE _processBuffer(s1)

\* QuartzParser.feed with a Buffer
feed(self, data) ==
    _processBuffer([ self EXCEPT !.buffer = @ \o toStringUtf8(data),
                                 !.decoded = @ \o toStringUtf8(data) ])

\* a slip: the buffer is left as it is
reset_keep(self) == self

\* QuartzParser.reset
reset(self) == [ self EXCEPT !.buffer = << >> ]

-----------------------------------------------------------------------------
(* actions.js: the callbacks of the Companion actions.  options holds the values  *)
(* of the action's options after parseVariablesInString                           *)

\* a value that is truthy in JavaScript: here a string that is not empty
Truthy(v) == v # << >>

\* `.S${levels}${dst},${src}`
routeCommand(levels, dst, src) == << ".", "S" >> \o levels \o dst \o << "," >> \o src

\* `.B${lock},${options.dst}`
lockCommand(options) == << ".", "B", options.lock, "," >> \o options.dst

\* quartz.js: buildLockCommand, buildUnlockCommand
buildLockCommand(destination) == << ".", "B", "L" >> \o destination
buildUnlockCommand(destination) == << ".", "B", "U" >> \o destination

lock_destination(self, options) == sendCommand(self, lockCommand(options))

\* a slip: the requested route is entered in the table when the command is sent
set_xpt_optimistic(self, options) ==
    LET s1 == sendCommand(self, routeCommand(options.levels, options.dst, options.src))
    IN  [ s1 EXCEPT !.crosspoints = applyLevels(@, options.levels, parseInt(options.dst)[1],
                                                parseInt(options.src)[1]) ]

set_xpt(self, options) ==
    sendCommand(self, routeCommand(options.levels, options.dst, options.src))

set_xpt_by_id(self, options) ==
    sendCommand(self, routeCommand(options.levels, options.dst, options.src))

\* the label lookup throws when the list has no entry with that id: the selection is
\* stored before it, the variables are set after it
set_destination(self, options) ==
    LET s1 == [ self EXCEPT !.selectedDestination = options.destination ]
    IN  IF findIndex(self.CHOICES_DESTINATIONS, options.destination) = -1
        THEN signal(s1, "TypeError")
        ELSE signal(s1, "setVariableValues destination")

set_destination_take(self, options) ==
    signal([ self EXCEPT !.variableValues.dst = options.dst ], "log Selected Destination")

set_source_take(self, options) ==
    signal([ self EXCEPT !.variableValues.src = options.src ], "log Selected Source")

\* the command of take, from Companion's values of dst and src
takeCommand(self, options) ==
    routeCommand(options.levels, self.variableValues.dst, self.variableValues.src)

take(self, options) ==
    IF Truthy(self.variableValues.dst) /\ Truthy(self.variableValues.src)
    THEN signal(sendCommand(self, takeCommand(self, options)), "log Take action executed")
    ELSE signal(self, "log Take action failed")

\* the command of route_source, with the stored selection as the destination
routeSourceCommand(self, options) ==
    routeCommand(options.levels, self.selectedDestination, options.src)

route_source(self, options) == sendCommand(self, routeSourceCommand(self, options))

-----------------------------------------------------------------------------
(* The records a router may write: the bytes of one message and its terminator *)

NameRecord(kind, id, name) == << ".", "R", "A", kind >> \o id \o << "," >> \o name \o << CR >>

UpdateRecord(levels, destination, source) ==
    << ".", "U" >> \o levels \o destination \o << "," >> \o source \o << CR >>

\* one {level}{destination},{source} group of an interrogate or list reply
Group(level, destination, source) == << level >> \o destination \o << "," >> \o source

AckRecord(data) == << ".", "A" >> \o data \o << CR >>

NameRecords ==
    { NameRecord("D", << "1" >>, << "C" >>),
      NameRecord("D", << "1" >>, << "D" >>),
      NameRecord("D", << "0", "1" >>, << "C" >>),
      NameRecord("S", << "1" >>, << "M" >>) }

OddNameRecords ==
    { NameRecord("D", << "0" >>, << "x" >>),
      NameRecord("D", << "2" >>, << "a", ",", "b" >>),
      NameRecord("S", << >>, << "n" >>),
      << ".", "R", "A", "D", "1", CR >> }

NoisyRecords ==
    { NameRecord("D", << "1" >>, << "C", ".", "A" >>),
      NameRecord("S", << "1" >>, << "xC3", "xA9" >>),
      << "z", "z" >> \o NameRecord("S", << "1" >>, << "M" >>),
      << CR >>,
      << "z", "z", CR >> }

UpdateRecords ==
    { UpdateRecord(<< "V" >>, << "1" >>, << "5" >>),
      UpdateRecord(<< "V", "A" >>, << "1" >>, << "5" >>),
      UpdateRecord(<< "V" >>, << "0", "1" >>, << "2" >>),
      NameRecord("S", << "5" >>, << "M" >>) }

\* groups of an interrogate reply: [level, destination, source], the numbers as
\* the router pads them
WellFormedGroups ==
    { << "V", 1, 5 >>, << "V", 2, 3 >>, << "V", 1, 3 >> }

Pad3(n) == IF n < 10 THEN << "0", "0" >> \o NatToString(n) ELSE NatToString(n)

RenderGroup(g) == Group(g[1], Pad3(g[2]), Pad3(g[3]))

RECURSIVE RenderGroups(_)
RenderGroups(gs) ==
    IF gs = << >> THEN << >> ELSE RenderGroup(Head(gs)) \o RenderGroups(Tail(gs))

\* the group sequences of the interrogate and list replies the router sends
SampleGroupSeqs ==
    { << << "V", 2, 3 >> >>,
      << << "V", 1, 5 >>, << "V", 2, 3 >> >>,
      << << "V", 1, 5 >>, << "V", 2, 3 >>, << "V", 1, 3 >> >> }

AckRecords ==
    { AckRecord(RenderGroups(gs)) : gs \in SampleGroupSeqs }
    \cup { UpdateRecord(<< "V" >>, << "2" >>, << "1" >>) }

\* groups with a field that is no number: the destination, the source
BadGroups == { Group("V", << "x" >>, << "5" >>), Group("V", << "1" >>, << >>) }

BadAckRecords ==
    { AckRecord(RenderGroup(<< "V", 1, 5 >>) \o Group("V", << "x" >>, << "5" >>)
                \o RenderGroup(<< "V", 2, 3 >>)),
      AckRecord(Group("V", << "1" >>, << >>) \o RenderGroup(<< "V", 2, 3 >>)),
      AckRecord(RenderGroup(<< "V", 1, 5 >>) \o << "V", "2" >>),
      AckRecord(<< >>) }

OtherRecords ==
    { << ".", "E", CR >>,
      << ".", "P", CR >>,
      << ".", "B", "A", "1", ",", "0", CR >>,
      UpdateRecord(<< "V" >>, << "x" >>, << "5" >>),
      << ".", "E", "0", "3", CR >>,
      << ".", "Z", CR >> }

Repertoires ==
    { NameRecords, OddNameRecords, NoisyRecords, UpdateRecords, AckRecords, BadAckRecords,
      OtherRecords }

\* a configuration field that is not there
NoValue == "(undefined)"

Configs ==
    { [ host |-> h, max_destinations |-> MaxDestinations, max_sources |-> MaxSources ] :
        h \in { NoValue, "", "router" } }

-----------------------------------------------------------------------------
(* The state machine *)

\* the instance as a record, with the scratch fields empty
Self ==
    [ config |-> config, parser |-> parser, buffer |-> buffer,
      CHOICES_DESTINATIONS |-> CHOICES_DESTINATIONS, CHOICES_SOURCES |-> CHOICES_SOURCES,
      crosspoints |-> crosspoints, refreshTimeout |-> refreshTimeout, socket |-> socket,
      lastCommand |-> lastCommand, decoded |-> decoded, emitted |-> emitted, trail |-> trail,
      selectedDestination |-> selectedDestination, variableValues |-> variableValues,
      listeners |-> listeners, timeouts |-> timeouts,
      signals |-> << >>, applied |-> << >>, sends |-> << >>, written |-> << >>,
      result |-> FALSE ]

\* the fields of the instance a handler may have changed
Becomes(self) ==
    /\ buffer' = self.buffer
    /\ CHOICES_DESTINATIONS' = self.CHOICES_DESTINATIONS
    /\ CHOICES_SOURCES' = self.CHOICES_SOURCES
    /\ crosspoints' = self.crosspoints
    /\ refreshTimeout' = self.refreshTimeout
    /\ timeouts' = self.timeouts
    /\ lastCommand' = self.lastCommand
    /\ decoded' = self.decoded
    /\ emitted' = self.emitted
    /\ trail' = self.trail
    /\ written' = self.written
    /\ selectedDestination' = self.selectedDestination
    /\ variableValues' = self.variableValues

\* the fields the QuartzInstance constructor sets, the histories empty; p says which
\* parser there is
Constructed(p) ==
    /\ config = [ host |-> "", max_destinations |-> MaxDestinations, max_sources |-> MaxSources ]
    /\ parser = p
    /\ buffer = << >>
    /\ CHOICES_DESTINATIONS = CHOICES_DESTINATIONS_INITIAL
    /\ CHOICES_SOURCES = CHOICES_SOURCES_INITIAL
    /\ crosspoints = EmptyObject
    /\ refreshTimeout = FALSE
    /\ socket = "null"
    /\ status = "none"
    /\ INTERVAL = FALSE
    /\ timers = 0
    /\ lastCommand = << >>
    /\ wire = << >>
    /\ fresh = FALSE
    /\ nsent = 0
    /\ stream = << >>
    /\ decoded = << >>
    /\ emitted = << >>
    /\ trail = << >>
    /\ residue = << >>
    /\ written = << >>
    /\ returned = << >>
    /\ base = EmptyObject
    /\ destroyed = FALSE
    /\ selectedDestination = << "0" >>
    /\ variableValues = [ dst |-> Undefined, src |-> Undefined ]
    /\ response = << >>
    /\ sockets = 0
    /\ listeners = 0
    /\ timeouts = 0
    /\ actionDefinitions = Undefined

\* a constructed QuartzInstance: this.parser is null until configUpdated runs
Init == Constructed("null") /\ repertoire \in Repertoires

\* a slip: every host is taken
NoHost_never(host) == FALSE

\* initConnection's test of the configuration: no host, or an empty one
NoHost(host) == host \in { NoValue, "" }

\* the connection of the instance: the socket, the poll timer and the parser's buffer
Connection ==
    [ INTERVAL |-> INTERVAL, timers |-> timers, socket |-> socket, sockets |-> sockets,
      parser |-> parser, buffer |-> buffer, listeners |-> listeners ]

\* _cleanupConnection: clearInterval of the timer this.INTERVAL holds, socket.destroy(),
\* parser.reset() if there is a parser
_cleanupConnection(c) ==
    [ c EXCEPT !.timers = IF c.INTERVAL THEN @ - 1 ELSE @,
               !.INTERVAL = FALSE,
               !.sockets = IF c.socket # "null" THEN @ - 1 ELSE @,
               !.socket = "null",
               !.buffer = IF c.parser # "null" THEN reset([ buffer |-> @ ]).buffer ELSE @ ]

\* destroy: clearInterval of the timer this.INTERVAL holds, the parser is dropped (and
\* its buffer with it), socket.destroy()
destroy(c) ==
    [ c EXCEPT !.timers = IF c.INTERVAL THEN @ - 1 ELSE @,
               !.INTERVAL = FALSE,
               !.parser = "null",
               !.listeners = 0,
               !.buffer = << >>,
               !.sockets = IF c.socket # "null" THEN @ - 1 ELSE @,
               !.socket = "null" ]

\* a slip: the parser there is is kept and given one more listener
_initParser_again(c) ==
    IF c.parser = "null"
    THEN [ c EXCEPT !.parser = "instance", !.buffer = << >>, !.listeners = 1 ]
    ELSE [ c EXCEPT !.listeners = @ + 1 ]

\* _initParser: removeAllListeners() on the parser there is, then this.parser is a
\* new QuartzParser with an empty buffer and one 'message' listener
_initParser(c) ==
    [ c EXCEPT !.parser = "instance", !.buffer = << >>, !.listeners = 1 ]

\* configUpdated: _initParser creates a new parser, initConnection cleans up the
\* old connection (timer, socket, parser.reset()) and opens a socket if a host is set
configUpdated(cfg) ==
    /\ ~destroyed
    /\ config' = cfg
    /\ LET c == _cleanupConnection(_initParser(Connection))
       IN  /\ parser' = c.parser
           /\ listeners' = c.listeners
           /\ buffer' = c.buffer
           /\ INTERVAL' = c.INTERVAL
           /\ timers' = c.timers
           /\ IF NoHost(cfg.host)
              THEN socket' = "null" /\ sockets' = c.sockets /\ status' = "BadConfig"
              ELSE /\ socket' = "connecting"
                   /\ sockets' = c.sockets + 1
                   /\ status' = "Connecting"
    /\ wire' = << >>
    /\ fresh' = FALSE
    /\ stream' = << >>
    /\ decoded' = << >>
    /\ emitted' = << >>
    /\ trail' = << >>
    /\ residue' = << >>
    /\ written' = << >>
    /\ returned' = << >>
    /\ base' = crosspoints
    /\ actionDefinitions' = initActions(Self)
    /\ UNCHANGED << CHOICES_DESTINATIONS, CHOICES_SOURCES, crosspoints, refreshTimeout,
                    lastCommand, nsent, repertoire, destroyed,
                    selectedDestination, variableValues, response,
                    timeouts >>

\* Companion removes the instance: destroy; what the socket had not delivered is lost
instanceDestroy ==
    /\ LET c == destroy(Connection)
       IN  /\ INTERVAL' = c.INTERVAL
           /\ timers' = c.timers
           /\ parser' = c.parser
           /\ listeners' = c.listeners
           /\ buffer' = c.buffer
           /\ socket' = c.socket
           /\ sockets' = c.sockets
    /\ destroyed' = TRUE
    /\ wire' = << >>
    /\ fresh' = FALSE
    /\ written' = << >>
    /\ returned' = << >>
    /\ UNCHANGED << config, CHOICES_DESTINATIONS, CHOICES_SOURCES, crosspoints,
                    refreshTimeout, status, lastCommand, nsent, stream, decoded, emitted,
                    trail, residue, base, repertoire,
                    selectedDestination, variableValues, response,
                    timeouts, actionDefinitions >>

\* onConnected and poll: the name refresh, then the crosspoint interrogation
refresh(self) == _requestCrosspoints(_requestNames(self))

\* the socket's 'connect' event, the first of a socket or one after a close:
\* _handleConnectionOpen
socketConnect ==
    /\ socket \in { "connecting", "closed" }
    /\ timers < MaxTimers
    /\ socket' = "connected"
    /\ status' = "Ok"
    /\ Becomes(refresh([ Self EXCEPT !.socket = "connected" ]))
    /\ INTERVAL' = TRUE
    /\ timers' = timers + 1
    /\ fresh' = TRUE
    /\ returned' = << >>
    /\ UNCHANGED << config, parser, wire, nsent, stream, residue, base, repertoire, destroyed,
                    response, sockets, listeners,
                    actionDefinitions >>

\* the socket's 'error' event: _handleConnectionError
socketError ==
    /\ socket # "null"
    /\ status' = "ConnectionFailure"
    /\ written' = << >>
    /\ returned' = << >>
    /\ UNCHANGED << config, parser, buffer, CHOICES_DESTINATIONS, CHOICES_SOURCES,
                    crosspoints, refreshTimeout, socket, INTERVAL, timers, lastCommand,
                    wire, fresh, nsent, stream, decoded, emitted, trail, residue, base,
                    repertoire, destroyed,
                    selectedDestination, variableValues, response, sockets, listeners,
                    timeouts, actionDefinitions >>

\* the socket's 'close' event: _handleConnectionClose; the bytes not delivered are lost
socketClose ==
    /\ socket = "connected"
    /\ socket' = "closed"
    /\ status' = "ConnectionFailure"
    /\ wire' = << >>
    /\ fresh' = FALSE
    /\ written' = << >>
    /\ returned' = << >>
    /\ UNCHANGED << config, parser, buffer, CHOICES_DESTINATIONS, CHOICES_SOURCES,
                    crosspoints, refreshTimeout, INTERVAL, timers, lastCommand, nsent,
                    stream, decoded, emitted, trail, residue, base, repertoire, destroyed,
                    selectedDestination, variableValues, response, sockets, listeners,
                    timeouts, actionDefinitions >>

\* an interval timer fires: poll
poll ==
    /\ timers > 0
    /\ Becomes(refresh(Self))
    /\ returned' = << >>
    /\ UNCHANGED << config, parser, socket, status, INTERVAL, timers, wire, fresh, nsent,
                    stream, residue, base, repertoire, destroyed,
                    response, sockets, listeners,
                    actionDefinitions >>

\* an action of the operator calls sendCommand(cmd)
actionCommand(cmd) ==
    /\ parser = "instance"
    /\ LET self == sendCommand(Self, cmd)
       IN  Becomes(self) /\ returned' = << cmd, self.result >>
    /\ UNCHANGED << config, parser, socket, status, INTERVAL, timers, wire, fresh, nsent,
                    stream, residue, base, repertoire, destroyed,
                    response, sockets, listeners,
                    actionDefinitions >>

\* the streams of n records of a repertoire
RECURSIVE Bursts(_, _)
Bursts(records, n) ==
    IF n = 0 THEN { << >> }
    ELSE { b \o r : b \in Bursts(records, n - 1), r \in records }

\* the router writes a burst of records; the socket delivers it in chunks of any size
\* up to MaxChunk bytes
routerWrite ==
    /\ \/ socket = "connected" /\ fresh
       \/ parser = "standalone" /\ stream = << >>
    /\ wire = << >>
    /\ \E n \in 1..(MaxRecords - nsent) : \E burst \in Bursts(repertoire, n) :
          /\ nsent' = nsent + n
          /\ wire' = burst
    /\ fresh' = FALSE
    /\ written' = << >>
    /\ returned' = << >>
    /\ UNCHANGED << config, parser, buffer, CHOICES_DESTINATIONS, CHOICES_SOURCES,
                    crosspoints, refreshTimeout, socket, status, INTERVAL, timers,
                    lastCommand, stream, decoded, emitted, trail, residue, base,
                    repertoire, destroyed,
                    selectedDestination, variableValues, response, sockets, listeners,
                    timeouts, actionDefinitions >>

\* the socket's 'data' event with the next n bytes: _handleData, parser.feed
socketData(n) ==
    /\ socket = "connected"
    /\ parser = "instance"
    /\ n \in 1..Min(Len(wire), MaxChunk)
    /\ Becomes(feed([ Self EXCEPT !.trail = << >> ], SubSeq(wire, 1, n)))
    /\ wire' = slice(wire, n)
    /\ stream' = stream \o SubSeq(wire, 1, n)
    /\ returned' = << >>
    /\ UNCHANGED << config, parser, socket, status, INTERVAL, timers, fresh, nsent,
                    residue, base, repertoire, destroyed,
                    response, sockets, listeners,
                    actionDefinitions >>

\* the debounce timeout of _scheduleActionsRefresh fires: initActions
refreshTimeoutFires ==
    /\ timeouts > 0
    /\ timeouts' = timeouts - 1
    /\ actionDefinitions' = initActions(Self)
    /\ refreshTimeout' = FALSE
    /\ written' = << >>
    /\ returned' = << >>
    /\ UNCHANGED << config, parser, buffer, CHOICES_DESTINATIONS, CHOICES_SOURCES,
                    crosspoints, socket, status, INTERVAL, timers, lastCommand, wire,
                    fresh, nsent, stream, decoded, emitted, trail, residue, base,
                    repertoire, destroyed,
                    selectedDestination, variableValues, response, sockets, listeners >>

-----------------------------------------------------------------------------
(* A QuartzParser used on its own: feed and reset called by its owner *)

\* new QuartzParser(), with a listener that collects the messages
InitParser == Constructed("standalone") /\ repertoire \in Repertoires

\* parser.feed(data) with the next n bytes
parserFeed(n) ==
    /\ parser = "standalone"
    /\ n \in 1..Min(Len(wire), MaxChunk)
    /\ Becomes(feed([ Self EXCEPT !.trail = << >> ], SubSeq(wire, 1, n)))
    /\ wire' = slice(wire, n)
    /\ stream' = stream \o SubSeq(wire, 1, n)
    /\ returned' = << >>
    /\ UNCHANGED << config, parser, socket, status, INTERVAL, timers, fresh, nsent,
                    residue, base, repertoire, destroyed,
                    response, sockets, listeners,
                    actionDefinitions >>

\* parser.reset(); what was still to be fed belongs to the old session and is dropped
parserReset ==
    /\ parser = "standalone"
    /\ Becomes([ reset([ Self EXCEPT !.trail = << >> ]) EXCEPT !.decoded = << >> ])
    /\ residue' = buffer
    /\ wire' = << >>
    /\ stream' = << >>
    /\ returned' = << >>
    /\ UNCHANGED << config, parser, socket, status, INTERVAL, timers, fresh, nsent, base,
                    repertoire, destroyed,
                    response, sockets, listeners,
                    actionDefinitions >>

NextParser ==
    \/ routerWrite
    \/ \E n \in 1..Min(Len(wire), MaxChunk) : parserFeed(n)
    \/ parserReset

SpecParser == InitParser /\ [][NextParser]_vars

-----------------------------------------------------------------------------
(* The data path: one connection per configuration, the socket never failing *)

Next ==
    \/ \E cfg \in Configs : configUpdated(cfg)
    \/ socketConnect
    \/ routerWrite
    \/ \E n \in 1..Min(Len(wire), MaxChunk) : socketData(n)
    \/ refreshTimeoutFires

Spec == Init /\ [][Next]_vars

-----------------------------------------------------------------------------
(* The session: the socket fails, closes and connects again, the poll timers fire *)
(* and the operator's actions send commands; the router is silent *)

\* the commands of the operator's actions: without and with the terminator, and none
Commands ==
    { << ".", "S", "V", "1", ",", "5" >>,
      << ".", "S", "V", "1", ",", "5", CR >>,
      << >> }

InitSession == Constructed("null") /\ repertoire = {}

NextSession ==
    \/ \E cfg \in Configs : configUpdated(cfg)
    \/ socketConnect
    \/ socketError
    \/ socketClose
    \/ poll
    \/ \E cmd \in Commands : actionCommand(cmd)
    \/ instanceDestroy

SpecSession == InitSession /\ [][NextSession]_vars

-----------------------------------------------------------------------------
(* Reconnection: the socket closes in the middle of the router's data and connects *)
(* again; in the end Companion removes the instance *)

\* what the router writes in these runs
SessionRecords ==
    { UpdateRecord(<< "V" >>, << "1" >>, << "5" >>),
      NameRecord("D", << "1" >>, << "M" >>) }

InitReconnect == Constructed("null") /\ repertoire = SessionRecords

NextReconnect ==
    \/ \E cfg \in Configs : configUpdated(cfg)
    \/ socketConnect
    \/ socketClose
    \/ routerWrite
    \/ \E n \in 1..Min(Len(wire), MaxChunk) : socketData(n)
    \/ refreshTimeoutFires
    \/ instanceDestroy

SpecReconnect == InitReconnect /\ [][NextReconnect]_vars

-----------------------------------------------------------------------------
(* The operator's buttons: the Companion actions run while the router sends data, *)
(* which the socket delivers in the largest chunks it may                          *)

\* what the operator may have typed in a levels field and in an id field
LevelTexts == { << "V" >>, << >> }
IdTexts == { << "1" >>, << "7" >> }

\* a Companion action ran its callback and left the instance as self; sent is
\* << command >> if the callback called sendCommand(command), else << >>
actionRuns(self, sent) ==
    /\ parser = "instance"
    /\ Becomes(self)
    /\ returned' = IF sent = << >> THEN << >> ELSE << sent[1], self.result >>
    /\ UNCHANGED << config, parser, socket, status, INTERVAL, timers, wire, fresh, nsent,
                    stream, residue, base, repertoire, destroyed,
                    response, sockets, listeners,
                    actionDefinitions >>

run_set_xpt ==
    \E src \in Ids(CHOICES_SOURCES) : \E dst \in Ids(CHOICES_DESTINATIONS) :
    \E levels \in LevelTexts :
        actionRuns(set_xpt(Self, [ src |-> src, dst |-> dst, levels |-> levels ]),
                   << routeCommand(levels, dst, src) >>)

run_set_xpt_by_id ==
    \E src \in IdTexts : \E dst \in IdTexts : \E levels \in LevelTexts :
        actionRuns(set_xpt_by_id(Self, [ src |-> src, dst |-> dst, levels |-> levels ]),
                   << routeCommand(levels, dst, src) >>)

run_set_destination ==
    \E destination \in Ids(CHOICES_DESTINATIONS) :
        actionRuns(set_destination(Self, [ destination |-> destination ]), << >>)

run_set_destination_take ==
    \E dst \in Ids(CHOICES_DESTINATIONS) :
        actionRuns(set_destination_take(Self, [ dst |-> dst ]), << >>)

run_set_source_take ==
    \E src \in Ids(CHOICES_SOURCES) :
        actionRuns(set_source_take(Self, [ src |-> src ]), << >>)

run_take ==
    \E levels \in LevelTexts :
        actionRuns(take(Self, [ levels |-> levels ]),
                   IF Truthy(variableValues.dst) /\ Truthy(variableValues.src)
                   THEN << takeCommand(Self, [ levels |-> levels ]) >> ELSE << >>)

run_route_source ==
    \E src \in Ids(CHOICES_SOURCES) : \E levels \in LevelTexts :
        actionRuns(route_source(Self, [ src |-> src, levels |-> levels ]),
                   << routeSourceCommand(Self, [ src |-> src, levels |-> levels ]) >>)

run_lock_destination ==
    \E dst \in Ids(CHOICES_DESTINATIONS) : \E lock \in { "L", "U" } :
        actionRuns(lock_destination(Self, [ dst |-> dst, lock |-> lock ]),
                   << lockCommand([ dst |-> dst, lock |-> lock ]) >>)

InitActions == Constructed("null") /\ repertoire = SessionRecords

NextActions ==
    \/ \E cfg \in Configs : configUpdated(cfg)
    \/ socketConnect
    \/ routerWrite
    \/ socketData(Min(Len(wire), MaxChunk))
    \/ run_set_xpt
    \/ run_set_xpt_by_id
    \/ run_set_destination
    \/ run_set_destination_take
    \/ run_set_source_take
    \/ run_take
    \/ run_route_source
    \/ run_lock_destination

SpecActions == InitActions /\ [][NextActions]_vars

-----------------------------------------------------------------------------
(* The actions refresh: the router answers with names, and a timeout that has been *)
(* set and not cleared fires in the end, as the timers of the event loop do        *)

InitRefresh == Constructed("null") /\ repertoire = NameRecords

NextRefresh ==
    \/ \E cfg \in Configs : configUpdated(cfg)
    \/ socketConnect
    \/ routerWrite
    \/ socketData(Min(Len(wire), MaxChunk))
    \/ refreshTimeoutFires

SpecRefresh == InitRefresh /\ [][NextRefresh]_vars /\ WF_vars(refreshTimeoutFires)

-----------------------------------------------------------------------------
(* The older generation: part_000 is its instance class, src/api.js its connection *)
(* and its receive path.  There is no parser: processData collects the received   *)
(* text in this.response.  Every socket initConnection has created and nobody has *)
(* destroyed keeps its four listeners, whether this.socket still refers to it or  *)
(* not.                                                                           *)

MaxSockets == 2

\* text.split(sep)
RECURSIVE split(_, _)
split(text, sep) ==
    IF indexOf(text, sep) = -1 THEN << text >>
    ELSE << slice2(text, 0, indexOf(text, sep)) >>
         \o split(slice(text, indexOf(text, sep) + 1), sep)

\* the object processData pushes for one name line: the id is what stands between the
\* four characters of the prefix and the first comma, the label the text between the
\* first and the second comma (undefined if there is no comma)
pushed(line) ==
    LET parts == split(line, ",")
        id == slice(parts[1], 4)
        label == IF Len(parts) > 1 THEN parts[2]
                 ELSE << "u", "n", "d", "e", "f", "i", "n", "e", "d" >>
    IN  [ id |-> id, label |-> << "[" >> \o id \o << "]", " " >> \o label ]

\* TEMP_DESTINATIONS / TEMP_SOURCES after the loop over the lines: one object per
\* non-empty line with the prefix, in the order of the lines
TEMP(lines, prefix) ==
    LET IsNamed(line) == line # << >> /\ slice2(line, 0, 4) = prefix
        named == SelectSeq(lines, IsNamed)
    IN  [ i \in 1..Len(named) |-> pushed(named[i]) ]

\* processData: the decoded chunk is appended to this.response; once the response
\* starts with '.' and ends with the carriage return it is split into lines, the
\* name lines are collected, the response is emptied, and a collected list that is
\* not empty and differs from the directory replaces the directory; update says
\* that one did, and initActions follows
processData(self, data) ==
    LET received == self.response \o toStringUtf8(data)
    IN  IF slice2(received, 0, 1) = << "." >> /\ sliceLast(received) = << CR >>
        THEN LET lines == split(received, CR)
                 TEMP_DESTINATIONS == TEMP(lines, PREFIX_DESTINATION_NAME)
                 TEMP_SOURCES == TEMP(lines, PREFIX_SOURCE_NAME)
             IN  [ self EXCEPT
                     !.response = << >>,
                     !.CHOICES_DESTINATIONS =
                         IF TEMP_DESTINATIONS # @ /\ Len(TEMP_DESTINATIONS) > 0
                         THEN TEMP_DESTINATIONS ELSE @,
                     !.CHOICES_SOURCES =
                         IF TEMP_SOURCES # @ /\ Len(TEMP_SOURCES) > 0
                         THEN TEMP_SOURCES ELSE @,
                     !.update =
                         \/ ( TEMP_DESTINATIONS # self.CHOICES_DESTINATIONS
                              /\ Len(TEMP_DESTINATIONS) > 0 )
                         \/ ( TEMP_SOURCES # self.CHOICES_SOURCES
                              /\ Len(TEMP_SOURCES) > 0 ) ]
        ELSE [ self EXCEPT !.response = received ]

\* readNames: one .RD{i} per destination and one .RS{i} per source, each terminated,
\* sent as one command
RECURSIVE readNamesCommand(_, _)
readNamesCommand(kind, max) ==
    IF max < 1 THEN << >>
    ELSE readNamesCommand(kind, max - 1) \o << ".", "R", kind >> \o NatToString(max)
         \o << CR >>

\* getData: readNames
getData(self) ==
    sendCommandOlder(self, readNamesCommand("D", self.config.max_destinations)
                           \o readNamesCommand("S", self.config.max_sources))

\* the configurations of the older generation: polling is a checkbox
OlderConfigs ==
    { [ host |-> h, max_destinations |-> MaxDestinations, max_sources |-> MaxSources,
        polling |-> p ] : h \in { "", "router" }, p \in BOOLEAN }

\* part_000 configUpdated: initConnection clears the interval this.INTERVAL holds and,
\* if a host is set, assigns a new TCPHelper to this.socket; the socket this.socket
\* referred to is not destroyed, and this.response is left as it is
olderConfigUpdated(cfg) ==
    /\ ~destroyed
    /\ config' = cfg
    /\ timers' = IF INTERVAL THEN timers - 1 ELSE timers
    /\ INTERVAL' = FALSE
    /\ IF NoHost(cfg.host)
       THEN UNCHANGED << socket, sockets, status >>
       ELSE /\ sockets < MaxSockets
            /\ socket' = "connecting"
            /\ sockets' = sockets + 1
            /\ status' = "Connecting"
    /\ actionDefinitions' = initActions(Self)
    /\ written' = << >>
    /\ returned' = << >>
    /\ UNCHANGED << parser, buffer, CHOICES_DESTINATIONS, CHOICES_SOURCES, crosspoints,
                    refreshTimeout, lastCommand, wire, fresh, nsent, stream, decoded,
                    emitted, trail, residue, base, repertoire, destroyed,
                    selectedDestination, variableValues, response, listeners,
                    timeouts >>

\* the 'connect' listener of this.socket: status Ok, getData, and a new interval if
\* polling is on
olderConnect ==
    /\ socket \in { "connecting", "closed" }
    /\ config.polling => timers < MaxTimers
    /\ socket' = "connected"
    /\ status' = "Ok"
    /\ LET self == getData([ Self EXCEPT !.socket = "connected" ])
       IN  lastCommand' = self.lastCommand /\ written' = self.written
    /\ IF config.polling
       THEN INTERVAL' = TRUE /\ timers' = timers + 1
       ELSE UNCHANGED << INTERVAL, timers >>
    /\ fresh' = TRUE
    /\ returned' = << >>
    /\ UNCHANGED << config, parser, buffer, CHOICES_DESTINATIONS, CHOICES_SOURCES,
                    crosspoints, refreshTimeout, wire, nsent, stream, decoded, emitted,
                    trail, residue, base, repertoire, destroyed,
                    selectedDestination, variableValues, response, sockets, listeners,
                    timeouts, actionDefinitions >>

\* the 'error' listener
olderError ==
    /\ sockets > 0
    /\ status' = "UnknownError"
    /\ written' = << >>
    /\ returned' = << >>
    /\ UNCHANGED << config, parser, buffer, CHOICES_DESTINATIONS, CHOICES_SOURCES,
                    crosspoints, refreshTimeout, socket, INTERVAL, timers, lastCommand,
                    wire, fresh, nsent, stream, decoded, emitted, trail, residue, base,
                    repertoire, destroyed,
                    selectedDestination, variableValues, response, sockets, listeners,
                    timeouts, actionDefinitions >>

\* the 'close' listener of this.socket; the bytes not delivered are lost
olderClose ==
    /\ socket = "connected"
    /\ socket' = "closed"
    /\ status' = "ConnectionFailure"
    /\ wire' = << >>
    /\ fresh' = FALSE
    /\ written' = << >>
    /\ returned' = << >>
    /\ UNCHANGED << config, parser, buffer, CHOICES_DESTINATIONS, CHOICES_SOURCES,
                    crosspoints, refreshTimeout, INTERVAL, timers, lastCommand, nsent,
                    stream, decoded, emitted, trail, residue, base, repertoire, destroyed,
                    selectedDestination, variableValues, response, sockets, listeners,
                    timeouts, actionDefinitions >>

\* an interval timer fires: getData
olderPoll ==
    /\ timers > 0
    /\ LET self == getData(Self)
       IN  lastCommand' = self.lastCommand /\ written' = self.written
    /\ returned' = << >>
    /\ UNCHANGED << config, parser, buffer, CHOICES_DESTINATIONS, CHOICES_SOURCES,
                    crosspoints, refreshTimeout, socket, status, INTERVAL, timers, wire,
                    fresh, nsent, stream, decoded, emitted, trail, residue, base,
                    repertoire, destroyed,
                    selectedDestination, variableValues, response, sockets, listeners,
                    timeouts, actionDefinitions >>

\* the sizes of the next chunk in these runs: up to the end of the first record that
\* is on the wire, or as much as one chunk holds
ChunkSizes ==
    IF wire = << >> THEN {}
    ELSE { Min(Len(wire), MaxChunk) }
         \cup { n \in 1..Min(Len(wire), MaxChunk) : n = indexOf(wire, CR) + 1 }

\* the 'data' listener of a live socket with the next n bytes: processData
olderData(n) ==
    /\ sockets > 0
    /\ n \in ChunkSizes
    /\ LET self == processData([ response |-> response,
                                 CHOICES_DESTINATIONS |-> CHOICES_DESTINATIONS,
                                 CHOICES_SOURCES |-> CHOICES_SOURCES,
                                 update |-> FALSE ],
                               SubSeq(wire, 1, n))
       IN  /\ response' = self.response
           /\ CHOICES_DESTINATIONS' = self.CHOICES_DESTINATIONS
           /\ CHOICES_SOURCES' = self.CHOICES_SOURCES
           /\ actionDefinitions' = IF self.update THEN initActions(self)
                                   ELSE actionDefinitions
    /\ wire' = slice(wire, n)
    /\ stream' = stream \o SubSeq(wire, 1, n)
    /\ written' = << >>
    /\ returned' = << >>
    /\ UNCHANGED << config, parser, buffer, crosspoints, refreshTimeout, socket, status,
                    INTERVAL, timers, lastCommand, fresh, nsent, decoded, emitted, trail,
                    residue, base, repertoire, destroyed,
                    selectedDestination, variableValues, sockets, listeners, timeouts >>

\* part_000 destroy: clearInterval of the timer this.INTERVAL holds, and destroy() of
\* the socket this.socket refers to
olderDestroy ==
    /\ ~destroyed
    /\ destroyed' = TRUE
    /\ timers' = IF INTERVAL THEN timers - 1 ELSE timers
    /\ INTERVAL' = FALSE
    /\ sockets' = IF socket # "null" THEN sockets - 1 ELSE sockets
    /\ socket' = "null"
    /\ written' = << >>
    /\ returned' = << >>
    /\ UNCHANGED << config, parser, buffer, CHOICES_DESTINATIONS, CHOICES_SOURCES,
                    crosspoints, refreshTimeout, status, lastCommand, wire, fresh, nsent,
                    stream, decoded, emitted, trail, residue, base, repertoire,
                    selectedDestination, variableValues, response, listeners,
                    timeouts, actionDefinitions >>

\* what the router writes in these runs: names, a stray byte, a fragment that is
\* never terminated
OlderRecords ==
    { NameRecord("D", << "1" >>, << "C" >>),
      NameRecord("D", << "2" >>, << "D" >>),
      << "x" >>,
      << ".", "R", "A", "D", "7" >> }

InitOlder == Constructed("null") /\ repertoire = OlderRecords

NextOlder ==
    \/ \E cfg \in OlderConfigs : olderConfigUpdated(cfg)
    \/ olderConnect
    \/ olderError
    \/ olderClose
    \/ olderPoll
    \/ routerWrite
    \/ \E n \in ChunkSizes : olderData(n)
    \/ olderDestroy

SpecOlder == InitOlder /\ [][NextOlder]_vars

-----------------------------------------------------------------------------
(* What the claims compare the program with *)

Steps == { trail[i] : i \in 1..Len(trail) }

IsNameMessage(m) == m.type \in { "destinationName", "sourceName" }

\* the directory a name message is for
DirectoryOf(store, m) ==
    IF m.type = "destinationName" THEN store.CHOICES_DESTINATIONS ELSE store.CHOICES_SOURCES

HasEntry(list, entry) == \E i \in 1..Len(list) : list[i] = entry

\* a parser that has been fed nothing
FreshParser ==
    [ Self EXCEPT !.parser = "standalone", !.buffer = << >>, !.emitted = << >>,
                  !.trail = << >> ]

\* the messages a fresh parser emits when it is fed the bytes in one chunk
OneChunk(bytes) == feed(FreshParser, bytes).emitted

\* the text of every terminated record of a text, in the order of the terminators
RECURSIVE RecordsOf(_)
RecordsOf(text) ==
    IF indexOf(text, CR) = -1 THEN << >>
    ELSE << slice2(text, 0, indexOf(text, CR)) >> \o RecordsOf(slice(text, indexOf(text, CR) + 1))

\* the message of one record: read from its last '.', none if it has no '.'
MessageOf(record) ==
    IF lastIndexOf(record, ".") = -1 THEN << >>
    ELSE << _parseLine(slice(record, lastIndexOf(record, "."))) >>

RECURSIVE MessagesOf(_)
MessagesOf(records) ==
    IF records = << >> THEN << >>
    ELSE MessageOf(Head(records)) \o MessagesOf(Tail(records))

\* the groups _parseInterrogateData applies for an Acknowledge's data
GroupsOf(data) ==
    interrogateLoop([ self |-> [ crosspoints |-> EmptyObject, applied |-> << >> ],
                      remaining |-> data, updated |-> FALSE ]).self.applied

\* the crosspoint settings << level, destination, source >> one message carries
ApplicationsOf(m) ==
    IF m.type = "crosspointUpdate"
    THEN [ i \in 1..Len(m.levels) |-> << m.levels[i], m.destination[1], m.source[1] >> ]
    ELSE IF m.type = "acknowledge" /\ m.data # Undefined THEN GroupsOf(m.data)
    ELSE << >>

RECURSIVE Applications(_)
Applications(messages) ==
    IF messages = << >> THEN << >>
    ELSE ApplicationsOf(Head(messages)) \o Applications(Tail(messages))

\* the crosspoint settings of the stream received on this connection, in the order of
\* the terminators
StreamApplications == Applications(MessagesOf(RecordsOf(toStringUtf8(stream))))

\* the source of the last setting for (level, destination), or what was there before
LastWriter(apps, level, destination, before) ==
    LET hits == { i \in 1..Len(apps) : apps[i][1] = level /\ apps[i][2] = destination }
    IN  IF hits = {} THEN before
        ELSE << apps[CHOOSE i \in hits : \A j \in hits : j <= i][3] >>

\* the crosspoint table after the settings << level, destination, source >> of apps
RECURSIVE ApplyAll(_, _)
ApplyAll(xp, apps) ==
    IF apps = << >> THEN xp
    ELSE ApplyAll(setCrosspoint(xp, Head(apps)[1], Head(apps)[2], Head(apps)[3]), Tail(apps))

\* the messages handled by the last operation
TrailMessages(t) == [ i \in 1..Len(t) |-> t[i].message ]

SampleDestinations == 0..5

-----------------------------------------------------------------------------
(* The claims *)

\* C1: fragmentation invariance.  However the bytes received so far were split
\* into chunks, the parser has emitted exactly the messages a parser emits that is
\* fed the same bytes in one chunk.
C1_FragmentationInvariance == emitted = OneChunk(stream)

\* C2: messages are applied in the order of their terminators in the byte stream,
\* so getRoutedSource(level, destination) is the source of the last CrosspointUpdate
\* or Acknowledge group for that pair in stream order, and is undefined, not 0, when
\* no setting for the pair was ever received.
C2_LastSettingInStreamOrder ==
    \A apps \in { StreamApplications } :
        /\ Applications(emitted) = apps
        /\ \A level \in validLevels : \A destination \in SampleDestinations :
              getRoutedSource(level, destination)
                = LastWriter(apps, level, destination,
                             lookupCrosspoint(base, level, destination))

\* C2 witness: two settings for the same pair with different sources were received
\* and the later one is what getRoutedSource returns, while another pair is undefined
C2_Witness ==
    /\ base = EmptyObject
    /\ \E i, j \in 1..Len(StreamApplications) :
          /\ i < j
          /\ StreamApplications[i][1] = StreamApplications[j][1]
          /\ StreamApplications[i][2] = StreamApplications[j][2]
          /\ StreamApplications[i][3] # StreamApplications[j][3]
          /\ j = Len(StreamApplications)
          /\ getRoutedSource(StreamApplications[j][1], StreamApplications[j][2])
               = << StreamApplications[j][3] >>
    /\ getRoutedSource("V", 4) = Undefined

\* C3: applying a CrosspointUpdate with levels L, destination d and source s sets
\* crosspoints[l][d] = s for every l in L and leaves every other (level, destination)
\* entry and both directories unchanged.
C3_CrosspointUpdateFrame ==
    \A step \in Steps :
        step.message.type = "crosspointUpdate" =>
            LET m == step.message
                L == { m.levels[i] : i \in 1..Len(m.levels) }
            IN  /\ \A l \in L :
                      lookupCrosspoint(step.after.crosspoints, l, m.destination[1]) = m.source
                /\ \A l \in validLevels : \A d \in SampleDestinations :
                      ~(l \in L /\ d = m.destination[1]) =>
                          lookupCrosspoint(step.after.crosspoints, l, d)
                            = lookupCrosspoint(step.before.crosspoints, l, d)
                /\ step.after.CHOICES_DESTINATIONS = step.before.CHOICES_DESTINATIONS
                /\ step.after.CHOICES_SOURCES = step.before.CHOICES_SOURCES

\* C3 witness: an update for two levels was applied to a table that held another
\* entry, with a name already in a directory
C3_Witness ==
    \E step \in Steps :
        /\ step.message.type = "crosspointUpdate"
        /\ Len(step.message.levels) = 2
        /\ step.before.crosspoints # EmptyObject
        /\ step.before.crosspoints # step.after.crosspoints
        /\ lookupCrosspoint(step.after.crosspoints, "A", step.message.destination[1])
             = step.message.source

\* C4: name round trip.  Once the record .RAD{id},{name} and its carriage return
\* (resp. .RAS) have been received, for id >= 1 and a name without carriage return,
\* the destination (resp. source) directory has an entry for that id whose name is
\* exactly {name}, the whole remainder after the first comma.
SampleIds == { << "1" >>, << "0", "1" >>, << "2" >>, << "5" >> }
SampleNames == { << "C" >>, << "D" >>, << "M" >>, << "a", ",", "b" >>, << "C", ".", "A" >> }

\* the stream received so far ends with the record, which starts where a record starts
EndsWithRecord(record) ==
    /\ Len(stream) >= Len(record)
    /\ SubSeq(stream, Len(stream) - Len(record) + 1, Len(stream)) = record
    /\ Len(stream) > Len(record) => stream[Len(stream) - Len(record)] = CR

C4_NameRoundTrip ==
    \A kind \in { "D", "S" } : \A id \in SampleIds : \A name \in SampleNames :
        EndsWithRecord(NameRecord(kind, id, name)) =>
            HasEntry(IF kind = "D" THEN CHOICES_DESTINATIONS ELSE CHOICES_SOURCES,
                     [ id |-> NatToString(DecimalValue(id)),
                       label |-> << "[" >> \o NatToString(DecimalValue(id))
                                   \o << "]", " " >> \o name ])

\* C5: each directory starts as the single sentinel entry with id 0; when the first
\* real name message of that kind is applied, id 0 is gone from that directory and
\* the real id is present.
IsRealId(id) == ~isNaN(id) /\ id[1] >= 1

C5_SentinelCleared ==
    /\ parser = "null" =>
          /\ CHOICES_DESTINATIONS = CHOICES_DESTINATIONS_INITIAL
          /\ CHOICES_SOURCES = CHOICES_SOURCES_INITIAL
    /\ Ids(CHOICES_DESTINATIONS_INITIAL) = { << "0" >> }
    /\ Ids(CHOICES_SOURCES_INITIAL) = { << "0" >> }
    /\ \A step \in Steps :
          ( /\ IsNameMessage(step.message)
            /\ IsRealId(step.message.id)
            /\ DirectoryOf(step.before, step.message)
                 \in { CHOICES_DESTINATIONS_INITIAL, CHOICES_SOURCES_INITIAL } )
          => /\ << "0" >> \notin Ids(DirectoryOf(step.after, step.message))
             /\ String(step.message.id) \in Ids(DirectoryOf(step.after, step.message))

\* C5 witness: the first real destination name was applied to the sentinel directory
C5_Witness ==
    \E step \in Steps :
        /\ step.message.type = "destinationName"
        /\ IsRealId(step.message.id)
        /\ step.before.CHOICES_DESTINATIONS = CHOICES_DESTINATIONS_INITIAL
        /\ Ids(step.after.CHOICES_DESTINATIONS) = { String(step.message.id) }

\* C6: a name message schedules an actions refresh if and only if its id is new to
\* the directory or its name differs from the stored one; applying an identical name
\* message again raises no signal and leaves the directory unchanged.
C6_RefreshIffChanged ==
    \A step \in Steps :
        IsNameMessage(step.message) =>
            LET before == DirectoryOf(step.before, step.message)
                entry == ChoiceEntry(step.message)
                changed == \/ entry.id \notin Ids(before)
                           \/ ~HasEntry(before, entry)
                signalled == \E i \in 1..Len(step.signals) :
                                step.signals[i] = "scheduleActionsRefresh"
            IN  /\ signalled <=> changed
                /\ ~changed => DirectoryOf(step.after, step.message) = before

\* C7: every applied CrosspointUpdate raises the crosspoint-changed signal, the route
\* log entry and the feedback check, also when it does not change the table.
C7_UpdateAlwaysSignals ==
    \A step \in Steps :
        step.message.type = "crosspointUpdate" =>
            step.signals = << "log Route", "checkFeedbacks" >>

\* C7 witness: an update that left the table as it was has been applied and signalled
C7_Witness ==
    \E step \in Steps :
        /\ step.message.type = "crosspointUpdate"
        /\ step.before.crosspoints = step.after.crosspoints
        /\ step.signals = << "log Route", "checkFeedbacks" >>

\* C8: Acknowledge data made of n concatenated {level}{destination},{source} groups
\* with no separator yields exactly n crosspoint applications, one per group, applied
\* left to right.
C8_AcknowledgeGroups ==
    \A step \in Steps : \A gs \in SampleGroupSeqs :
        ( step.message.type = "acknowledge" /\ step.message.data = RenderGroups(gs) )
        => /\ step.applied = gs
           /\ \A level \in validLevels : \A destination \in SampleDestinations :
                 lookupCrosspoint(step.after.crosspoints, level, destination)
                   = LastWriter(gs, level, destination,
                                lookupCrosspoint(step.before.crosspoints, level, destination))

\* C8 witness: an Acknowledge with two groups has been handled and both were applied
C8_Witness ==
    \E step \in Steps :
        /\ step.message.type = "acknowledge"
        /\ step.message.data = RenderGroups(<< << "V", 1, 5 >>, << "V", 2, 3 >> >>)
        /\ Len(step.applied) = 2
        /\ lookupCrosspoint(step.after.crosspoints, "V", 2) = << 3 >>

\* the group sequences that may stand before and after a group that fails to parse
GroupSeqsAround == { << >> } \cup { << g >> : g \in WellFormedGroups }

\* the Acknowledge has the groups of pre, then a group with a field that is no
\* number, then the groups of post
HasFailingGroup(step, pre, bad, post) ==
    /\ step.message.type = "acknowledge"
    /\ step.message.data = RenderGroups(pre) \o bad \o RenderGroups(post)

\* C9, as claimed: a numeric parse failure on one group aborts the parsing of the rest
\* of the data: the groups before it stay applied and no group after it is applied.
C9_FailureAborts ==
    \A step \in Steps : \A pre \in GroupSeqsAround : \A post \in GroupSeqsAround :
        \A bad \in BadGroups :
            HasFailingGroup(step, pre, bad, post) => step.applied = pre

\* C9, amended: a numeric parse failure on one group skips that group only: it is not
\* applied, the groups before it stay applied, and parsing goes on behind it, so the
\* well-formed groups after it in the same Acknowledge are applied too.
C9_FailureSkipsGroup ==
    \A step \in Steps : \A pre \in GroupSeqsAround : \A post \in GroupSeqsAround :
        \A bad \in BadGroups :
            HasFailingGroup(step, pre, bad, post) =>
                /\ step.applied = pre \o post
                /\ \A level \in validLevels : \A destination \in SampleDestinations :
                      lookupCrosspoint(step.after.crosspoints, level, destination)
                        = LastWriter(pre \o post, level, destination,
                                     lookupCrosspoint(step.before.crosspoints, level,
                                                      destination))

\* C9 witness: an Acknowledge with a failing group between two well-formed groups has
\* been handled
C9_Witness ==
    \E step \in Steps : \E bad \in BadGroups :
        /\ HasFailingGroup(step, << << "V", 1, 5 >> >>, bad, << << "V", 2, 3 >> >>)
        /\ step.applied = << << "V", 1, 5 >>, << "V", 2, 3 >> >>

\* C10: reset() on a parser whose buffer holds a partial record emits nothing, and a
\* complete record fed afterwards emits exactly that record's message, with no bytes
\* from before the reset in it.
C10_ResetLeavesNoResidue ==
    [][ /\ ( stream' = << >> /\ nsent' = nsent )
            => ( emitted' = emitted /\ buffer' = << >> )
        /\ ( residue # << >> /\ stream = << >> /\ stream' \in repertoire )
            => /\ emitted' = emitted \o MessagesOf(RecordsOf(toStringUtf8(stream')))
               /\ buffer' = << >> ]_vars

\* C10 witness: reset discarded a partial record, then one complete record was fed and
\* its message emitted
C10_Witness ==
    /\ residue # << >>
    /\ indexOf(residue, CR) = -1
    /\ stream \in repertoire
    /\ Len(trail) = 1
    /\ << trail[1].message >> = MessagesOf(RecordsOf(toStringUtf8(stream)))
    /\ emitted[Len(emitted)] = trail[1].message

\* C11: on each established connection the framer buffer is empty: at every socket
\* connect event, also one that follows a close of the same socket, no partial
\* fragment of the earlier session remains.
C11_ConnectWithEmptyBuffer ==
    fresh => buffer = << >>

\* the records of a text that have a '.'
HasDot(record) == lastIndexOf(record, ".") # -1

\* C12: feed emits no message for an empty record and none for a record without a
\* '.'; of a record with bytes before its last '.' only the text from that '.' on is
\* interpreted.
C12_FramerEdgeCases ==
    \A dotted \in { SelectSeq(RecordsOf(decoded), HasDot) } :
        /\ Len(emitted) = Len(dotted)
        /\ \A k \in 1..Len(dotted) :
              emitted[k] = _parseLine(slice(dotted[k], lastIndexOf(dotted[k], ".")))

\* C12 witness: a record without a '.' and a record with bytes before its '.' were
\* fed, and the one message is that of the second read from its '.'
C12_Witness ==
    /\ RecordsOf(decoded) = << << "z", "z" >>,
                               << "z", "z", ".", "R", "A", "S", "1", ",", "M" >> >>
    /\ Len(emitted) = 1
    /\ emitted[1].type = "sourceName"
    /\ emitted[1].name = << "M" >>

\* the commands of the name refresh and the crosspoint interrogation
RefreshCommands ==
    << buildReadNamesCommand(config.max_destinations, config.max_sources),
       buildInterrogateAllCommand("V", config.max_destinations) >>

\* a step in which the socket becomes connected
ConnectStep == socket # "connected" /\ socket' = "connected"

\* C13: sendCommand writes to the socket if and only if a socket exists and is
\* connected, and returns true exactly when it wrote; a command submitted while not
\* connected is dropped, changes no state (lastCommand included) and is not written
\* at a later connect.
C13_SendCommandOnlyWhenConnected ==
    [][ /\ returned' # << >> =>
            /\ (written' # << >>) <=> (socket = "connected")
            /\ returned'[2] <=> (written' # << >>)
            /\ ~returned'[2] =>
                  UNCHANGED << config, parser, buffer, CHOICES_DESTINATIONS,
                               CHOICES_SOURCES, crosspoints, refreshTimeout, socket,
                               status, INTERVAL, timers, lastCommand >>
        /\ ConnectStep => written' = RefreshCommands ]_vars

\* C13 witness: a command was dropped while the socket was closed, after commands
\* had been written on the earlier connection
C13_Witness ==
    /\ returned = << << ".", "S", "V", "1", ",", "5" >>, FALSE >>
    /\ socket = "closed"
    /\ written = << >>
    /\ lastCommand # << >>

\* C14: sendCommand appends the terminator only if it is absent: a text that ends in
\* a carriage return is written unchanged, any other text with one carriage return
\* appended, so every write ends with the terminator and sending the written text
\* again writes the same text; the older generation normalises alike.
C14_TerminatorAppendedOnce ==
    ( returned # << >> /\ returned[2] ) =>
        /\ Len(written) = 1
        /\ \A cmd \in { returned[1] } : \A w \in { written[1] } :
              /\ w[Len(w)] = CR
              /\ ( Len(cmd) > 0 /\ cmd[Len(cmd)] = CR ) => w = cmd
              /\ ~( Len(cmd) > 0 /\ cmd[Len(cmd)] = CR ) => w = cmd \o << CR >>
              /\ sendCommand(Self, w).written = << w >>
              /\ sendCommandOlder(Self, cmd).written = << w >>

\* C14 witness: a command without terminator was written with one appended
C14_Witness ==
    /\ returned # << >>
    /\ returned[2]
    /\ returned[1] = << ".", "S", "V", "1", ",", "5" >>
    /\ written = << << ".", "S", "V", "1", ",", "5", CR >> >>

\* C15: on every socket-open event the status becomes Ok, the name refresh and then
\* the crosspoint interrogation are written to the wire at once, and a poll timer is
\* started; every firing of a poll timer issues the same two commands again.
C15_OpenRefreshesAndPolls ==
    [][ /\ ConnectStep =>
            /\ status' = "Ok"
            /\ written' = RefreshCommands
            /\ INTERVAL'
            /\ timers' = timers + 1
        /\ timers > 0 => refresh(Self).written = RefreshCommands ]_vars

\* C16: after a socket error or close the status is the failure status and the poll
\* timer is stopped: no poll can fire until a later connect.
C16_FailureStopsPolling ==
    /\ socket = "closed" => status = "ConnectionFailure"
    /\ status = "ConnectionFailure" => ( timers = 0 /\ ~INTERVAL )

\* C17: in every reachable state the instance has at most one outstanding poll
\* interval timer.
C17_AtMostOnePollTimer ==
    timers <= 1

\* C18: a PowerUp message changes neither the directories nor the crosspoint table
\* and has both the name refresh and the crosspoint interrogation sent.
C18_PowerUpRequestsAll ==
    \A step \in Steps :
        step.message.type = "powerUp" =>
            /\ step.after = step.before
            /\ socket = "connected" => step.sends = RefreshCommands

\* a step in which the parser was fed and emitted at least one message
FeedStep == stream' # stream /\ trail' # << >>

\* C19: an Error message, '.E' alone or '.E' followed by more text, is not fatal: it
\* changes neither the directories nor the crosspoint table, neither the socket nor
\* the poll timer, nothing is written, and a diagnostic is logged.
C19_ErrorIsNotFatal ==
    /\ []( \A record \in { << ".", "E", CR >>, << ".", "E", "0", "3", CR >> } :
             EndsWithRecord(record) =>
                 /\ trail # << >>
                 /\ trail[Len(trail)].message.type = "error"
                 /\ trail[Len(trail)].signals = << "log error from router" >>
                 /\ trail[Len(trail)].after = trail[Len(trail)].before
                 /\ trail[Len(trail)].sends = << >> )
    /\ [][ ( FeedStep /\ \A i \in 1..Len(trail') : trail'[i].message.type = "error" ) =>
               /\ written' = << >>
               /\ UNCHANGED << CHOICES_DESTINATIONS, CHOICES_SOURCES, crosspoints, socket,
                               status, INTERVAL, timers, refreshTimeout, lastCommand >> ]_vars

\* C19 witness: '.E03' was received after '.E' and handled as an error
C19_Witness ==
    /\ stream = << ".", "E", CR, ".", "E", "0", "3", CR >>
    /\ Len(emitted) = 2
    /\ trail # << >>
    /\ trail[Len(trail)].message.type = "error"
    /\ trail[Len(trail)].message.raw = << ".", "E", "0", "3" >>
    /\ socket = "connected"
    /\ INTERVAL

C21_CancellationIdempotent ==
    /\ \A c \in { Connection } :
          /\ _cleanupConnection(_cleanupConnection(c)) = _cleanupConnection(c)
          /\ destroy(destroy(c)) = destroy(c)
          /\ \A once \in { _cleanupConnection(c), destroy(c) } :
                once.socket = "null" /\ ~once.INTERVAL /\ once.timers = 0
    /\ destroyed => ( socket = "null" /\ ~INTERVAL /\ timers = 0 )

\* C22: the crosspoint table is never changed speculatively: a step in which an
\* action calls sendCommand leaves it as it is, and whenever it changes, the step is
\* the handling of received data, and the change is exactly the CrosspointUpdates
\* and Acknowledge groups of the messages handled, applied in order.
C22_NoSpeculativeMutation ==
    [][ /\ returned' # << >> => crosspoints' = crosspoints
        /\ crosspoints' # crosspoints =>
              /\ stream' # stream
              /\ Applications(TrailMessages(trail')) # << >>
              /\ crosspoints' = ApplyAll(crosspoints, Applications(TrailMessages(trail'))) ]_vars

\* C22 witness: a route of source 7 to destination 1 was written to the socket and
\* the table still shows source 5, the route the router reported
C22_Witness ==
    /\ returned = << routeCommand(<< "V" >>, << "1" >>, << "7" >>), TRUE >>
    /\ written = << routeCommand(<< "V" >>, << "1" >>, << "7" >>) \o << CR >> >>
    /\ getRoutedSource("V", 1) = << 5 >>

\* C23: whenever a new connection attempt has begun (configUpdated, initConnection)
\* and its socket is not open yet, the directories, the crosspoint table and the
\* connection state are reset together: each directory is its sentinel entry, the
\* table is empty, the buffer is empty and no poll timer is referenced.
C23_AttemptStartsFromReset ==
    socket = "connecting" =>
        /\ CHOICES_DESTINATIONS = CHOICES_DESTINATIONS_INITIAL
        /\ CHOICES_SOURCES = CHOICES_SOURCES_INITIAL
        /\ crosspoints = EmptyObject
        /\ buffer = << >>
        /\ ~INTERVAL

\* the line of a record: its text from the last '.' on
LineOf(record) == slice(record, lastIndexOf(record, "."))

\* a line with the prefix of a name response and no comma behind it
IsNameLineWithoutComma(line) ==
    /\ startsWith(line, PREFIX_DESTINATION_NAME) \/ startsWith(line, PREFIX_SOURCE_NAME)
    /\ indexOf(line, ",") = -1

\* C24: name parsing fails soft: a .RAD or .RAS record with no comma is emitted as an
\* Unknown message carrying the line, and handling an Unknown message raises nothing,
\* writes nothing and leaves both directories and the crosspoint table unchanged.
C24_NameWithoutCommaIsUnknown ==
    /\ \A dotted \in { SelectSeq(RecordsOf(decoded), HasDot) } :
          \A k \in 1..Min(Len(dotted), Len(emitted)) :
              IsNameLineWithoutComma(LineOf(dotted[k])) =>
                  emitted[k] = UnknownMessage(LineOf(dotted[k]))
    /\ \A step \in Steps :
          step.message.type = "unknown" =>
              /\ step.after = step.before
              /\ step.signals = << >>
              /\ step.sends = << >>

\* C24 witness: '.RAD1' without a comma was received when the destination directory
\* already held a name, and was handled as Unknown
C24_Witness ==
    \E step \in Steps :
        /\ step.message = UnknownMessage(<< ".", "R", "A", "D", "1" >>)
        /\ step.before.CHOICES_DESTINATIONS # CHOICES_DESTINATIONS_INITIAL
        /\ step.after = step.before

\* the length of the maximal leading run of level characters of a text
LevelRun(text) ==
    CHOOSE n \in 0..Len(text) :
        /\ \A i \in 1..n : text[i] \in validLevels
        /\ n = Len(text) \/ text[n + 1] \notin validLevels

\* the parts of a '.U' line: the level run, the text up to the first comma behind
\* it, and the text after that comma
UpdateParts(line) ==
    LET payload == slice(line, Len(PREFIX_UPDATE))
        rest == slice(payload, LevelRun(payload))
    IN  [ levels |-> SubSeq(payload, 1, LevelRun(payload)),
          comma |-> indexOf(rest, ",") # -1,
          destination |-> slice2(rest, 0, indexOf(rest, ",")),
          source |-> slice(rest, indexOf(rest, ",") + 1) ]

AllDigits(text) == text # << >> /\ \A i \in 1..Len(text) : IsDigit(text[i])

\* the fields of a CrosspointUpdate message are those of the parts
CarriesParts(message, parts) ==
    /\ message.levels = parts.levels
    /\ message.destination = parseInt(parts.destination)
    /\ message.source = parseInt(parts.source)
    /\ AllDigits(parts.destination) => message.destination = Num(DecimalValue(parts.destination))
    /\ AllDigits(parts.source) => message.source = Num(DecimalValue(parts.source))

\* the k-th message emitted is that of a '.U' line
IsUpdateLine(line) ==
    /\ startsWith(line, PREFIX_UPDATE)
    /\ ~startsWith(line, PREFIX_DESTINATION_NAME)
    /\ ~startsWith(line, PREFIX_SOURCE_NAME)

\* handling an Unknown message that came from a '.U' line changes nothing
UnknownUpdateChangesNothing ==
    \A step \in Steps :
        ( step.message.type = "unknown" /\ startsWith(step.message.raw, PREFIX_UPDATE) )
        => step.after = step.before

\* C25, as claimed: a '.U' record is a CrosspointUpdate with the levels of the run,
\* the destination up to the comma and the source after it exactly when the run of
\* level characters is not empty and a comma follows; else it is Unknown and the table
\* is unchanged.
C25_UpdateIffLevelsAndComma ==
    /\ \A dotted \in { SelectSeq(RecordsOf(decoded), HasDot) } :
          \A k \in 1..Min(Len(dotted), Len(emitted)) :
              IsUpdateLine(LineOf(dotted[k])) =>
                  \A parts \in { UpdateParts(LineOf(dotted[k])) } :
                      IF parts.levels # << >> /\ parts.comma
                      THEN /\ emitted[k].type = "crosspointUpdate"
                           /\ CarriesParts(emitted[k], parts)
                      ELSE emitted[k] = UnknownMessage(LineOf(dotted[k]))
    /\ UnknownUpdateChangesNothing

\* C25, amended: a '.U' record is a CrosspointUpdate exactly when the run of level
\* characters is not empty, a comma follows, and both the text up to the comma and the
\* text after it start with an integer; then the levels are the run, the destination
\* and the source those integers.  Every other '.U' record is Unknown and leaves the
\* table unchanged.
C25_UpdateIffLevelsCommaAndNumbers ==
    /\ \A dotted \in { SelectSeq(RecordsOf(decoded), HasDot) } :
          \A k \in 1..Min(Len(dotted), Len(emitted)) :
              IsUpdateLine(LineOf(dotted[k])) =>
                  \A parts \in { UpdateParts(LineOf(dotted[k])) } :
                      IF /\ parts.levels # << >>
                         /\ parts.comma
                         /\ ~isNaN(parseInt(parts.destination))
                         /\ ~isNaN(parseInt(parts.source))
                      THEN /\ emitted[k].type = "crosspointUpdate"
                           /\ CarriesParts(emitted[k], parts)
                      ELSE emitted[k] = UnknownMessage(LineOf(dotted[k]))
    /\ UnknownUpdateChangesNothing

\* C25 witness: '.UVx,5', with a level, a comma and a destination that is no number,
\* was received and handled as Unknown
C25_Witness ==
    \E step \in Steps :
        /\ step.message = UnknownMessage(<< ".", "U", "V", "x", ",", "5" >>)
        /\ step.after = step.before
        /\ Len(emitted) > 1

\* the prefixes in the order _parseLine tests them, each with its variant
PrefixOrder ==
    << [ prefix |-> PREFIX_DESTINATION_NAME, type |-> "destinationName" ],
       [ prefix |-> PREFIX_SOURCE_NAME, type |-> "sourceName" ],
       [ prefix |-> PREFIX_UPDATE, type |-> "crosspointUpdate" ],
       [ prefix |-> PREFIX_LOCK_STATUS, type |-> "lockStatus" ],
       [ prefix |-> PREFIX_ACKNOWLEDGE, type |-> "acknowledge" ],
       [ prefix |-> PREFIX_ERROR, type |-> "error" ],
       [ prefix |-> PREFIX_POWER_UP, type |-> "powerUp" ] >>

\* the position in PrefixOrder of the first prefix the line starts with, 0 if none
FirstMatch(line) ==
    LET hits == { i \in 1..Len(PrefixOrder) : startsWith(line, PrefixOrder[i].prefix) }
    IN  IF hits = {} THEN 0 ELSE CHOOSE i \in hits : \A j \in hits : i <= j

\* the payload behind the prefix has what the variant needs: a comma for a name, a
\* level run, a comma and two numbers for an update, a comma and two numbers for a
\* lock status; the other variants need nothing
PayloadFits(line, type) ==
    CASE type \in { "destinationName", "sourceName" } -> indexOf(line, ",") # -1
      [] type = "crosspointUpdate" ->
           \A parts \in { UpdateParts(line) } :
               /\ parts.levels # << >>
               /\ parts.comma
               /\ ~isNaN(parseInt(parts.destination))
               /\ ~isNaN(parseInt(parts.source))
      [] type = "lockStatus" ->
           \A payload \in { slice(line, Len(PREFIX_LOCK_STATUS)) } :
               /\ indexOf(payload, ",") # -1
               /\ ~isNaN(parseInt(slice2(payload, 0, indexOf(payload, ","))))
               /\ ~isNaN(parseInt(slice(payload, indexOf(payload, ",") + 1)))
      [] OTHER -> TRUE

\* C26: every framed record gives exactly one message, whose type is one of the eight
\* message types: the variant of the first prefix in the order .RAD, .RAS, .U, .BA, .A,
\* .E, .P that the record starts with (Unknown where the payload fails that variant's
\* parse), and Unknown for a record that starts with none of them.
C26_ClassifiedByFirstPrefix ==
    /\ Cardinality(MessageType) = 8
    /\ \A dotted \in { SelectSeq(RecordsOf(decoded), HasDot) } :
          /\ Len(emitted) = Len(dotted)
          /\ \A k \in 1..Len(dotted) :
                \A line \in { LineOf(dotted[k]) } : \A first \in { FirstMatch(line) } :
                    /\ emitted[k].type \in MessageType
                    /\ first = 0 => emitted[k] = UnknownMessage(line)
                    /\ first # 0 =>
                          IF PayloadFits(line, PrefixOrder[first].type)
                          THEN emitted[k].type = PrefixOrder[first].type
                          ELSE emitted[k] = UnknownMessage(line)

\* C26 witness: a lock status record and a record with none of the prefixes were
\* received and classified
C26_Witness ==
    /\ Len(emitted) = 2
    /\ emitted[1].type = "lockStatus"
    /\ emitted[1].destination = Num(1)
    /\ emitted[2] = UnknownMessage(<< ".", "Z" >>)

\* well-formed records, each with the message it stands for
WellFormedSamples ==
    { [ record |-> NameRecord("S", << "1" >>, << "M" >>),
        message |-> [ BlankMessage EXCEPT !.type = "sourceName", !.id = Num(1),
                                          !.name = << "M" >> ] ],
      [ record |-> NameRecord("D", << "2" >>, << "a", ",", "b" >>),
        message |-> [ BlankMessage EXCEPT !.type = "destinationName", !.id = Num(2),
                                          !.name = << "a", ",", "b" >> ] ],
      [ record |-> UpdateRecord(<< "V" >>, << "1" >>, << "5" >>),
        message |-> [ BlankMessage EXCEPT !.type = "crosspointUpdate", !.levels = << "V" >>,
                                          !.destination = Num(1), !.source = Num(5) ] ],
      [ record |-> << ".", "B", "A", "1", ",", "0", CR >>,
        message |-> [ BlankMessage EXCEPT !.type = "lockStatus", !.destination = Num(1),
                                          !.status = Num(0) ] ],
      [ record |-> << ".", "P", CR >>,
        message |-> [ BlankMessage EXCEPT !.type = "powerUp" ] ] }

\* the bytes received so far end with the record, whatever came before it
EndsWith(bytes, record) ==
    /\ Len(bytes) >= Len(record)
    /\ SubSeq(bytes, Len(bytes) - Len(record) + 1, Len(bytes)) = record

\* C27: whatever bytes were received before, in whatever chunks, every feed and every
\* message handler has completed without raising an error, and a well-formed record
\* received after them is framed and handled as itself: its message is the last one
\* emitted and handled, and nothing of it stays in the buffer.
C27_MalformedInputIsSurvived ==
    /\ \A step \in Steps : \A i \in 1..Len(step.signals) : step.signals[i] # "TypeError"
    /\ \A sample \in WellFormedSamples :
          EndsWith(stream, sample.record) =>
              /\ buffer = << >>
              /\ emitted # << >>
              /\ emitted[Len(emitted)] = sample.message
              /\ trail # << >>
              /\ trail[Len(trail)].message = sample.message
              /\ IsNameMessage(sample.message) =>
                    HasEntry(DirectoryOf(Store(Self), sample.message),
                             ChoiceEntry(sample.message))

\* C27 witness: after '.RAD1' without a comma, destination 2 was named and is in the
\* directory
C27_Witness ==
    /\ stream = << ".", "R", "A", "D", "1", CR >>
                   \o NameRecord("D", << "2" >>, << "a", ",", "b" >>)
    /\ Len(emitted) = 2
    /\ emitted[1].type = "unknown"
    /\ HasEntry(CHOICES_DESTINATIONS,
                [ id |-> << "2" >>, label |-> << "[", "2", "]", " ", "a", ",", "b" >> ])

\* the real ids of a directory: the ids of its entries that are numbers >= 1
RealIds(list) == { id \in Ids(list) : IsRealId(parseInt(id)) }

UniqueIds(list) == \A i, j \in 1..Len(list) : list[i].id = list[j].id => i = j

\* after is before with the entry entered: in the place of the entry with its id if
\* there is one, else at the end; a lone entry with id 0 gives way
Entered(before, entry, after) ==
    /\ RealIds(before) \subseteq RealIds(after)
    /\ Len(after) >= Len(before)
    /\ UniqueIds(before) => UniqueIds(after)
    /\ HasEntry(after, entry)
    /\ entry.id \in Ids(before) =>
          after = [ before EXCEPT ![findIndex(before, entry.id) + 1] = entry ]
    /\ ( entry.id \notin Ids(before) /\ Ids(before) # { << "0" >> } ) =>
          after = Append(before, entry)

\* directories as a router's names build them, and names that arrive
SampleDirectories ==
    { CHOICES_DESTINATIONS_INITIAL,
      << [ id |-> << "1" >>, label |-> << "[", "1", "]", " ", "C" >> ] >>,
      << [ id |-> << "1" >>, label |-> << "[", "1", "]", " ", "C" >> ],
         [ id |-> << "2" >>, label |-> << "[", "2", "]", " ", "D" >> ],
         [ id |-> << "5" >>, label |-> << "[", "5", "]", " ", "M" >> ] >> }

SampleEntries ==
    { [ id |-> << "1" >>, label |-> << "[", "1", "]", " ", "C" >> ],
      [ id |-> << "2" >>, label |-> << "[", "2", "]", " ", "X" >> ],
      [ id |-> << "7" >>, label |-> << "[", "7", "]", " ", "N" >> ] }

\* C28: a directory never shrinks: a name message enters its entry in the directory of
\* its kind, in the place of the entry with the same id if there is one and at the end
\* otherwise, so the real ids only grow and stay unique; the other directory, and both
\* directories under every other message, stay as they are.
C28_DirectoryNeverShrinks ==
    /\ UniqueIds(CHOICES_DESTINATIONS) /\ UniqueIds(CHOICES_SOURCES)
    /\ \A step \in Steps :
          IF IsNameMessage(step.message)
          THEN /\ Entered(DirectoryOf(step.before, step.message), ChoiceEntry(step.message),
                          DirectoryOf(step.after, step.message))
               /\ \/ step.after.CHOICES_DESTINATIONS = step.before.CHOICES_DESTINATIONS
                  \/ step.after.CHOICES_SOURCES = step.before.CHOICES_SOURCES
          ELSE /\ step.after.CHOICES_DESTINATIONS = step.before.CHOICES_DESTINATIONS
               /\ step.after.CHOICES_SOURCES = step.before.CHOICES_SOURCES
    /\ \A list \in SampleDirectories : \A entry \in SampleEntries :
          Entered(list, entry,
                  _updateChoiceList([ Self EXCEPT !.CHOICES_DESTINATIONS = list ],
                                    "CHOICES_DESTINATIONS", entry).CHOICES_DESTINATIONS)

\* C28 witness: destination 1 was named again with another name and its entry was
\* overwritten where it was
C28_Witness ==
    \E step \in Steps :
        /\ step.message.type = "destinationName"
        /\ step.before.CHOICES_DESTINATIONS
             = << [ id |-> << "1" >>, label |-> << "[", "1", "]", " ", "C" >> ] >>
        /\ step.after.CHOICES_DESTINATIONS
             = << [ id |-> << "1" >>, label |-> << "[", "1", "]", " ", "D" >> ] >>

\* C29: the reported status follows Disconnected -> Connecting -> Connected ->
\* (Faulted | Disconnected): Ok is only reported when the last report before it was
\* Connecting, and every new attempt reports Connecting.
C29_OkOnlyAfterConnecting ==
    [][ /\ ( status' = "Ok" /\ status # "Ok" ) => status = "Connecting"
        /\ ( socket' = "connecting" /\ socket # "connecting" ) => status' = "Connecting" ]_vars

\* C30: the command lock_destination writes for destination d is '.BL' d when locking
\* and '.BU' d when unlocking, with the terminator: the text buildLockCommand and
\* buildUnlockCommand return.
C30_LockCommandOnWire ==
    \A d \in Ids(CHOICES_DESTINATIONS) : \A lock \in { "L", "U" } :
        ( returned # << >> /\ returned[1] = lockCommand([ dst |-> d, lock |-> lock ])
          /\ returned[2] )
        => written = << ( IF lock = "L" THEN buildLockCommand(d) ELSE buildUnlockCommand(d) )
                          \o << CR >> >>

\* the character with the code of a byte
charOfByte(b) ==
    CASE b = "xC3" -> "U+C3"
      [] b = "xA9" -> "U+A9"
      [] b = "xE9" -> "U+E9"
      [] OTHER -> b

\* C31: byte values 0x80-0xFF are preserved in both directions: sendCommand writes
\* one byte per character, the byte with the character's code, and a received name
\* with such bytes is stored as the characters with the codes of the bytes, wherever
\* the chunk boundaries fell.
C31_HighBytesPreserved ==
    /\ sendCommand([ Self EXCEPT !.socket = "connected" ], << ".", "F", "U+E9" >>).written
         = << << ".", "F", "xE9", CR >> >>
    /\ \A name \in { << "xC3", "xA9" >> } :
          EndsWithRecord(NameRecord("S", << "1" >>, name)) =>
              HasEntry(CHOICES_SOURCES,
                       [ id |-> << "1" >>,
                         label |-> << "[", "1", "]", " " >>
                                     \o [ i \in 1..Len(name) |-> charOfByte(name[i]) ] ])

\* C32: an Acknowledge of which at least one group parses runs the feedback check,
\* the notification a live CrosspointUpdate ends with, once and with the groups
\* applied to the table; an Acknowledge without data or without a group that parses
\* changes nothing and notifies nothing.
C32_AcknowledgeNotifies ==
    \A step \in Steps :
        /\ step.message.type = "crosspointUpdate" =>
              step.signals[Len(step.signals)] = "checkFeedbacks"
        /\ step.message.type = "acknowledge" =>
              IF step.message.data # Undefined /\ GroupsOf(step.message.data) # << >>
              THEN /\ step.signals = << "checkFeedbacks" >>
                   /\ step.applied = GroupsOf(step.message.data)
                   /\ step.after.crosspoints
                        = ApplyAll(step.before.crosspoints, step.applied)
              ELSE /\ step.signals = << >>
                   /\ step.applied = << >>
                   /\ step.after = step.before

\* C32 witness: an Acknowledge whose first group has no source and whose second group
\* parses was handled: one route entered, one feedback check
C32_Witness ==
    \E step \in Steps :
        /\ step.message.type = "acknowledge"
        /\ step.message.data = Group("V", << "1" >>, << >>) \o RenderGroup(<< "V", 2, 3 >>)
        /\ step.applied = << << "V", 2, 3 >> >>
        /\ step.signals = << "checkFeedbacks" >>
        /\ lookupCrosspoint(step.after.crosspoints, "V", 2) = << 3 >>

\* C33: the sentinel is cleared, not merged: no directory ever holds an entry with id
\* 0 together with an entry with an id >= 1, whatever name messages were received.
C33_NoSentinelBesideRealIds ==
    \A list \in { CHOICES_DESTINATIONS, CHOICES_SOURCES } :
        << "0" >> \in Ids(list) => RealIds(list) = {}

\* C34: after any sequence of configUpdated / initConnection calls at most one socket
\* of the instance is live: the previous socket was destroyed before the new one was
\* created, so no two sockets deliver data.
C34_AtMostOneLiveSocket == sockets <= 1

\* the name records among the records the router may write
WellFormedNames == { r \in repertoire : EndsWith(r, << CR >>) }

\* the directory holds the entry of a name record
Holds(record) ==
    LET line == slice2(record, 0, Len(record) - 1)
        list == IF slice2(line, 0, 4) = PREFIX_DESTINATION_NAME
                THEN CHOICES_DESTINATIONS ELSE CHOICES_SOURCES
    IN  HasEntry(list, pushed(line))

\* C36: in the older receive path a framing error does not stall the buffer: once a
\* well-formed record has been received whole, whatever bytes came before it (stray
\* bytes, a fragment that was never terminated), the record has been parsed and its
\* name is in the directory.
C36_FramingErrorsRecovered ==
    \A r \in WellFormedNames : EndsWith(stream, r) => Holds(r)

\* C37: in the older receive path the directories after a name reply hold every id the
\* router answered, in however many chunks the reply arrived: when a reply of two name
\* records has been received and handled, both names are in their directories.
C37_ReplyInChunksKeepsEveryName ==
    \A r1, r2 \in WellFormedNames :
        stream = r1 \o r2 /\ response = << >> => Holds(r1) /\ Holds(r2)

\* a text of digits that reads as a positive number
IsPositiveId(text) == AllDigits(text) /\ DecimalValue(text) >= 1

\* C35: every route command the routing actions write has the form
\* .S{levels}{dest},{src} and its terminator, with at least one level character and
\* positive destination and source ids; no command carries the id 0 of the initial
\* selection or of the placeholder entry.
C35_RouteCommandWellFormed ==
    \A i \in 1..Len(written) :
        startsWith(written[i], << ".", "S" >>) =>
            \A parts \in { UpdateParts(slice2(written[i], 0, Len(written[i]) - 1)) } :
                /\ parts.levels # << >>
                /\ parts.comma
                /\ IsPositiveId(parts.destination)
                /\ IsPositiveId(parts.source)

\* C38: after any number of configUpdated calls each framed record is applied exactly
\* once: the parser the socket data goes to has exactly one 'message' listener, every
\* message of the last operation was handled by one listener call, and the messages
\* emitted since the last configUpdated are those of the records received since then,
\* one each: a replaced parser and what its buffer held deliver nothing.
C38_EachRecordAppliedOnce ==
    /\ parser = "instance" => listeners = 1
    /\ \A step \in Steps : step.handled = 1
    /\ \A dotted \in { SelectSeq(RecordsOf(decoded), HasDot) } :
          /\ Len(emitted) = Len(dotted)
          /\ \A k \in 1..Len(dotted) : emitted[k] = _parseLine(LineOf(dotted[k]))

\* C38 witness: the parser was replaced after the crosspoint table had been filled, and
\* a crosspoint update received by the new parser has been applied once
C38_Witness ==
    /\ base # EmptyObject
    /\ listeners = 1
    /\ \E step \in Steps :
          /\ step.message.type = "crosspointUpdate"
          /\ step.handled = 1
          /\ step.applied # << >>

\* C39: once destroy has completed no timer of the instance is scheduled any more:
\* no poll interval is live and no actions-refresh timeout is pending, so nothing
\* runs on the destroyed instance.
C39_NoTimerSurvivesDestroy == destroyed => ( timers = 0 /\ ~refreshTimeout )

\* C40: the actions refresh is debounced.  At most one refresh timeout is pending at
\* any time; a step that changes a directory leaves exactly one timeout pending, the
\* one it has set in place of the pending one; and whenever a timeout is pending, in
\* the end it has fired and initActions has built the actions from the directories as
\* they are then, the change included.
C40_DebouncedRefresh ==
    /\ [](timeouts <= 1)
    /\ [][ initActions(Self)' # initActions(Self) => ( refreshTimeout' /\ timeouts' = 1 ) ]_vars
    /\ ( refreshTimeout ~> ( ~refreshTimeout /\ actionDefinitions = initActions(Self) ) )

\* C40 witness: two name messages of one burst have changed the directories, and the
\* one timeout they left has fired: the actions are built from both names
C40_Witness ==
    /\ ~refreshTimeout
    /\ timeouts = 0
    /\ Len(emitted) = 2
    /\ \A k \in 1..2 : IsNameMessage(emitted[k])
    /\ CHOICES_DESTINATIONS # CHOICES_DESTINATIONS_INITIAL
    /\ CHOICES_SOURCES # CHOICES_SOURCES_INITIAL
    /\ actionDefinitions = initActions(Self)

=============================================================================
